---- MODULE Spec2Model ----
(***************************************************************************)
(* Ownership-scoped graph store (core/services/graphrag_service.py) and    *)
(* the triage pipeline on top of it (core/services/triage_service.py).     *)
(*                                                                         *)
(* The graph is a record `store`: one set of node records per label and a  *)
(* bag of edges <<type, from, to>>.  A Cypher statement is one atomic      *)
(* transformation of the store (auto-commit transaction); MATCH that finds *)
(* no row makes the rest of the statement run zero times.                  *)
(***************************************************************************)
EXTENDS Integers, Sequences, FiniteSets, Bags, TLC

VARIABLES store, clock, last, procs

vars == <<store, clock, last, procs>>

\* ------------------------------------------------------------------ bounds

\* uuid4()/now() draws available to one exploration (ids and timestamps).
MaxClock == 3

\* Consecutive identical relationship calls that are told apart.
MaxRepeat == 2

\* Callers running find_or_create_project / find_or_create_area at the same time.
NumProcs == 2

\* PART_OF / IN_AREA / DUPLICATE_OF relationships one exploration creates.
MaxLinks == 2

\* uuid4()/now() draws available to one exploration of the triage pipeline.
MaxTriageClock == 3

\* Items in one LLM answer.
MaxItems == 1

\* Decisions in one apply_suggestions call.
MaxDecisions == 1

\* Position of the call that raises inside one apply_suggestions call.
MaxFail == 3
MaxResponseItems == 2

\* Decisions in one list of the review, ids drawn during a review, and the
\* latest call of apply_suggestions that can raise.
MaxReviewDecisions == 3
MaxReviewClock == 17
MaxReviewFail == 7

\* ------------------------------------------------------------- input sets

UserIds == {"u1", "u2"}

\* Project / Area names as character sequences, so that toLower works on them.
Names == {<<"H", "i">>, <<"h", "I">>, <<"G", "o">>}

Statuses == {"INBOX", "NEXT"}

\* Free text (titles, descriptions, brain dumps) is a sequence of characters.
Texts == {<<"d", "u", "m", "p">>}

\* Update maps handed to update_task.
UpdateMaps == {[status |-> "DONE"]}

\* ----------------------------------------------------------------- helpers

\* Cypher toLower() on one character of the alphabet in use.
LowerChar(c) ==
    CASE c = "H" -> "h"
      [] c = "I" -> "i"
      [] c = "G" -> "g"
      [] c = "O" -> "o"
      [] OTHER -> c

toLower(s) == [i \in DOMAIN s |-> LowerChar(s[i])]

\* A returned value: Python None, a value, or a raised exception.
None == [kind |-> "none"]
Some(v) == [kind |-> "some", val |-> v]
Raised(e) == [kind |-> "raise", err |-> e]

\* The elements of a sequence.
Range(seq) == {seq[i] : i \in DOMAIN seq}

Edge(type, from, to) == <<type, from, to>>

\* Number of parallel edges of one type between two nodes.
EdgeCount(st, type, from, to) == CopiesIn(Edge(type, from, to), st.edges)

\* Cypher CREATE (a)-[:type]->(b): always adds a relationship.
CreateEdge(edges, type, from, to) == edges (+) SetToBag({Edge(type, from, to)})

\* A MERGE that behaves as CREATE.
MergeEdgeDup(edges, type, from, to) == CreateEdge(edges, type, from, to)

\* Cypher MERGE (a)-[:type]->(b): adds the relationship only when none exists.
MergeEdge(edges, type, from, to) ==
    IF CopiesIn(Edge(type, from, to), edges) > 0
    THEN edges
    ELSE CreateEdge(edges, type, from, to)

\* Pattern (u:User {id: user_id})-[:OWNS]->(n {id: node_id}).
Owns(st, user_id, node_id) ==
    /\ user_id \in st.users
    /\ EdgeCount(st, "OWNS", user_id, node_id) > 0

EmptyStore ==
    [users |-> {}, tasks |-> {}, projects |-> {}, areas |-> {},
     sessions |-> {}, suggestions |-> {}, edges |-> EmptyBag]

\* ----------------------------------------------------------- User CRUD

\* MERGE (u:User {id: $id}) SET ...
create_user(st, user_id) ==
    [st |-> [st EXCEPT !.users = @ \cup {user_id}], ret |-> Some(user_id)]

\* ----------------------------------------------------------- Task CRUD

\* Task.embedding of a task stored without a vector (embedding: None).
NoEmbedding == 0 - 1

\* A TaskNode with the dataclass defaults; Optional strings hold "None" for None.
TaskNode(id, title, status, now) ==
    [id |-> id, title |-> title, status |-> status, priority |-> 3,
     urgency |-> 2, effort |-> "M", created_at |-> now, updated_at |-> now,
     embedding_model |-> "voyage-3", description |-> <<>>, next_action |-> "None",
     energy_signal |-> "None", embedding |-> NoEmbedding]

\* A create that does not MATCH the owner and adds no OWNS edge.
create_task_unlinked(st, user_id, task) ==
    [st |-> [st EXCEPT !.tasks = @ \cup {task}], ret |-> Some(task.id)]

\* MATCH (u:User {id}) CREATE (t:Task {...}) CREATE (u)-[:OWNS]->(t); return task.id
create_task(st, user_id, task) ==
    IF user_id \in st.users
    THEN [st |-> [st EXCEPT !.tasks = @ \cup {task},
                            !.edges = CreateEdge(@, "OWNS", user_id, task.id)],
          ret |-> Some(task.id)]
    ELSE [st |-> st, ret |-> Some(task.id)]

\* A lookup by id alone, without the ownership pattern.
get_task_by_id(st, user_id, task_id) ==
    LET m == {t \in st.tasks : t.id = task_id}
    IN  IF m = {} THEN None ELSE Some(CHOOSE t \in m : TRUE)

\* MATCH (u:User {id})-[:OWNS]->(t:Task {id}) RETURN t; result.single()
get_task(st, user_id, task_id) ==
    LET m == {t \in st.tasks : t.id = task_id /\ Owns(st, user_id, t.id)}
    IN  IF m = {} THEN None ELSE Some(CHOOSE t \in m : TRUE)

\* Rows of a set of nodes in ORDER BY created_at DESC order.
RECURSIVE OrderDesc(_)
OrderDesc(S) ==
    IF S = {} THEN <<>>
    ELSE LET top == CHOOSE x \in S : \A y \in S : y.created_at <= x.created_at
         IN  <<top>> \o OrderDesc(S \ {top})

RECURSIVE OrderAsc(_)
OrderAsc(S) ==
    IF S = {} THEN <<>>
    ELSE LET low == CHOOSE x \in S : \A y \in S : x.created_at <= y.created_at
         IN  <<low>> \o OrderAsc(S \ {low})

\* A listing without the ownership pattern.
list_tasks_unscoped(st, user_id, status) ==
    OrderDesc({t \in st.tasks : status = "" \/ t.status = status})

\* status "" stands for Python's status=None (and any falsy status).
list_tasks(st, user_id, status) ==
    OrderDesc({t \in st.tasks :
                 /\ Owns(st, user_id, t.id)
                 /\ (status = "" \/ t.status = status)})

\* An update that matches the task by id alone.
update_task_unscoped(st, user_id, task_id, updates, now) ==
    LET hit == {t \in st.tasks : t.id = task_id}
        upd(t) == [updated_at |-> now] @@ updates @@ t
    IN  [st |-> [st EXCEPT !.tasks = (@ \ hit) \cup {upd(t) : t \in hit}],
         ret |-> Some(hit # {})]

\* MATCH (u)-[:OWNS]->(t:Task {id}) SET t.k = v, ..., t.updated_at = now
update_task(st, user_id, task_id, updates, now) ==
    LET hit == {t \in st.tasks : t.id = task_id /\ Owns(st, user_id, t.id)}
        upd(t) == [updated_at |-> now] @@ updates @@ t
    IN  [st |-> [st EXCEPT !.tasks = (@ \ hit) \cup {upd(t) : t \in hit}],
         ret |-> Some(hit # {})]

\* -------------------------------------------------------- Project CRUD

ProjectNode(id, name, outcome) ==
    [id |-> id, name |-> name, outcome |-> outcome, status |-> "ACTIVE"]

\* A lookup that tells names apart by case.
project_lookup_exact(st, user_id, name) ==
    {p \in st.projects : Owns(st, user_id, p.id) /\ p.name = name}

\* MATCH (u)-[:OWNS]->(p:Project) WHERE toLower(p.name) = toLower($name)
project_lookup(st, user_id, name) ==
    {p \in st.projects : Owns(st, user_id, p.id) /\ toLower(p.name) = toLower(name)}

\* MATCH (u:User {id}) CREATE (p:Project {...}) CREATE (u)-[:OWNS]->(p)
project_create(st, user_id, new_id, name, outcome) ==
    IF user_id \in st.users
    THEN [st EXCEPT !.projects = @ \cup {ProjectNode(new_id, name, outcome)},
                    !.edges = CreateEdge(@, "OWNS", user_id, new_id)]
    ELSE st

\* Lookup, then create when the lookup is empty.  new_id is the uuid4() the
\* create branch draws; `drew` tells the caller whether it was drawn.
find_or_create_project(st, user_id, name, outcome, new_id) ==
    LET found == project_lookup(st, user_id, name)
    IN  IF found # {}
        THEN [st |-> st, ret |-> Some(CHOOSE p \in found : TRUE), drew |-> FALSE]
        ELSE [st |-> project_create(st, user_id, new_id, name, outcome),
              ret |-> Some(ProjectNode(new_id, name, outcome)), drew |-> TRUE]

\* MATCH (u)-[:OWNS]->(p:Project) RETURN p   (no ORDER BY: rows in any order)
list_projects(st, user_id) == {p \in st.projects : Owns(st, user_id, p.id)}

\* ----------------------------------------------------------- Area CRUD

AreaNode(id, name) == [id |-> id, name |-> name]

area_lookup(st, user_id, name) ==
    {a \in st.areas : Owns(st, user_id, a.id) /\ toLower(a.name) = toLower(name)}

area_create(st, user_id, new_id, name) ==
    IF user_id \in st.users
    THEN [st EXCEPT !.areas = @ \cup {AreaNode(new_id, name)},
                    !.edges = CreateEdge(@, "OWNS", user_id, new_id)]
    ELSE st

find_or_create_area(st, user_id, name, new_id) ==
    LET found == area_lookup(st, user_id, name)
    IN  IF found # {}
        THEN [st |-> st, ret |-> Some(CHOOSE a \in found : TRUE), drew |-> FALSE]
        ELSE [st |-> area_create(st, user_id, new_id, name),
              ret |-> Some(AreaNode(new_id, name)), drew |-> TRUE]

list_areas(st, user_id) == {a \in st.areas : Owns(st, user_id, a.id)}

\* -------------------------------------------------- TriageSession CRUD

TriageSessionNode(id, now, input_text) ==
    [id |-> id, created_at |-> now, input_text |-> input_text,
     model |-> "claude-sonnet-4-6", prompt_version |-> "v1"]

\* MATCH (u:User {id}) CREATE (ts:TriageSession {...}) CREATE (u)-[:OWNS]->(ts)
create_triage_session(st, user_id, session_node) ==
    IF user_id \in st.users
    THEN [st |-> [st EXCEPT !.sessions = @ \cup {session_node},
                            !.edges = CreateEdge(@, "OWNS", user_id, session_node.id)],
          ret |-> Some(session_node.id)]
    ELSE [st |-> st, ret |-> Some(session_node.id)]

\* MATCH (u)-[:OWNS]->(ts:TriageSession {id}) RETURN ts
get_triage_session(st, user_id, session_id) ==
    LET m == {ts \in st.sessions : ts.id = session_id /\ Owns(st, user_id, ts.id)}
    IN  IF m = {} THEN None ELSE Some(CHOOSE ts \in m : TRUE)

\* ----------------------------------------------------- Suggestion CRUD

SuggestionNode(id, now, payload, accepted_bool) ==
    [id |-> id, created_at |-> now, suggestion_type |-> "triage_item",
     payload_json |-> payload, accepted_bool |-> accepted_bool]

\* MATCH (u)-[:OWNS]->(ts:TriageSession {id}) CREATE (s:Suggestion {...})
\* CREATE (u)-[:OWNS]->(s) CREATE (ts)-[:PRODUCED]->(s); return suggestion.id
create_suggestion(st, user_id, session_id, suggestion) ==
    IF \E ts \in st.sessions : ts.id = session_id /\ Owns(st, user_id, ts.id)
    THEN [st |-> [st EXCEPT
                    !.suggestions = @ \cup {suggestion},
                    !.edges = CreateEdge(CreateEdge(@, "OWNS", user_id, suggestion.id),
                                         "PRODUCED", session_id, suggestion.id)],
          ret |-> Some(suggestion.id)]
    ELSE [st |-> st, ret |-> Some(suggestion.id)]

\* MATCH (u)-[:OWNS]->(ts:TriageSession {id}) MATCH (ts)-[:PRODUCED]->(s:Suggestion)
\* RETURN s ORDER BY s.created_at ASC
get_suggestions_for_session(st, user_id, session_id) ==
    OrderAsc({s \in st.suggestions :
                \E ts \in st.sessions :
                    /\ ts.id = session_id
                    /\ Owns(st, user_id, ts.id)
                    /\ EdgeCount(st, "PRODUCED", ts.id, s.id) > 0})

\* An update that takes an accepted suggestion back instead of writing it.
update_suggestion_toggled(st, user_id, suggestion_id, accepted) ==
    LET hit == {s \in st.suggestions : s.id = suggestion_id /\ Owns(st, user_id, s.id)}
    IN  [st |-> [st EXCEPT !.suggestions =
                    (@ \ hit) \cup
                    {[s EXCEPT !.accepted_bool =
                          IF @ = "True" THEN "False" ELSE accepted] : s \in hit}],
         ret |-> Some(hit # {})]

\* MATCH (u)-[:OWNS]->(s:Suggestion {id}) SET s.accepted_bool = $accepted
update_suggestion_accepted(st, user_id, suggestion_id, accepted) ==
    LET hit == {s \in st.suggestions : s.id = suggestion_id /\ Owns(st, user_id, s.id)}
    IN  [st |-> [st EXCEPT !.suggestions =
                    (@ \ hit) \cup {[s EXCEPT !.accepted_bool = accepted] : s \in hit}],
         ret |-> Some(hit # {})]

\* ------------------------------------------------ Relationship helpers

\* MATCH (t:Task {id}), (p:Project {id}) MERGE (t)-[:PART_OF]->(p)
create_task_part_of_project(st, task_id, project_id) ==
    IF (\E t \in st.tasks : t.id = task_id) /\ (\E p \in st.projects : p.id = project_id)
    THEN [st EXCEPT !.edges = MergeEdge(@, "PART_OF", task_id, project_id)]
    ELSE st

\* MATCH (t:Task {id}), (a:Area {id}) MERGE (t)-[:IN_AREA]->(a)
create_task_in_area(st, task_id, area_id) ==
    IF (\E t \in st.tasks : t.id = task_id) /\ (\E a \in st.areas : a.id = area_id)
    THEN [st EXCEPT !.edges = MergeEdge(@, "IN_AREA", task_id, area_id)]
    ELSE st

\* MATCH (t:Task {id}), (e:Task {id}) MERGE (t)-[:DUPLICATE_OF]->(e)
create_task_duplicate_of(st, task_id, existing_task_id) ==
    IF (\E t \in st.tasks : t.id = task_id) /\ (\E e \in st.tasks : e.id = existing_task_id)
    THEN [st EXCEPT !.edges = MergeEdge(@, "DUPLICATE_OF", task_id, existing_task_id)]
    ELSE st

\* ===================================================================
\* Specification Spec: the store's operations called one after another
\* by any of the user ids (a user id may not have a User node yet: signup
\* logs the user in even when create_user failed, views.py signup).
\* ===================================================================

\* Ids a caller may name: every id drawn so far, and 0, an id drawn by nobody.
KnownIds == 0..clock

\* The latest call: operation, calling user, the ids and the name it was given,
\* what it returned, and how many times in a row it was made; for a call of
\* the review also the decisions, the call that raises and the store before.
Call(op, user, arg, ret) ==
    [op |-> op, user |-> user, arg |-> arg, name |-> <<>>, text |-> <<>>,
     llm |-> <<>>, decisions |-> <<>>, fail_at |-> 0, before |-> <<>>,
     ret |-> ret, n |-> 1]

CallNamed(op, user, name, ret) ==
    [op |-> op, user |-> user, arg |-> <<>>, name |-> name, text |-> <<>>,
     llm |-> <<>>, decisions |-> <<>>, fail_at |-> 0, before |-> <<>>,
     ret |-> ret, n |-> 1]

\* The same call made again right after itself: n counts the calls in a row
\* (up to MaxRepeat).
Repeated(call) ==
    IF last.op = call.op /\ last.arg = call.arg
    THEN [call EXCEPT !.n = IF last.n < MaxRepeat THEN last.n + 1 ELSE last.n]
    ELSE call

NoProcs == <<>>

Init ==
    /\ store = EmptyStore
    /\ clock = 0
    /\ last = Call("init", "", <<>>, None)
    /\ procs = NoProcs

\* A write that draws a fresh id / timestamp.
Tick == clock < MaxClock /\ clock' = clock + 1

CreateUser(u) ==
    LET r == create_user(store, u)
    IN  /\ store' = r.st
        /\ last' = Call("create_user", u, <<>>, r.ret)
        /\ UNCHANGED <<clock, procs>>

CreateTask(u, status) ==
    /\ Tick
    /\ LET r == create_task(store, u, TaskNode(clock', <<"t">>, status, clock'))
       IN  /\ store' = r.st
           /\ last' = Call("create_task", u, <<clock'>>, r.ret)
    /\ UNCHANGED procs

UpdateTask(u, id, updates) ==
    LET r == update_task(store, u, id, updates, clock)
    IN  /\ store' = r.st
        /\ last' = Call("update_task", u, <<id>>, r.ret)
        /\ UNCHANGED <<clock, procs>>

FindOrCreateProject(u, name) ==
    /\ clock < MaxClock
    /\ LET r == find_or_create_project(store, u, name, "", clock + 1)
       IN  /\ store' = r.st
           /\ clock' = IF r.drew THEN clock + 1 ELSE clock
           /\ last' = CallNamed("find_or_create_project", u, name, r.ret)
    /\ UNCHANGED procs

FindOrCreateArea(u, name) ==
    /\ clock < MaxClock
    /\ LET r == find_or_create_area(store, u, name, clock + 1)
       IN  /\ store' = r.st
           /\ clock' = IF r.drew THEN clock + 1 ELSE clock
           /\ last' = CallNamed("find_or_create_area", u, name, r.ret)
    /\ UNCHANGED procs

CreateTriageSession(u, text) ==
    /\ Tick
    /\ LET r == create_triage_session(store, u, TriageSessionNode(clock', clock', text))
       IN  /\ store' = r.st
           /\ last' = Call("create_triage_session", u, <<clock'>>, r.ret)
    /\ UNCHANGED procs

CreateSuggestion(u, sid) ==
    /\ Tick
    /\ LET r == create_suggestion(store, u, sid,
                                  SuggestionNode(clock', clock', "p", "None"))
       IN  /\ store' = r.st
           /\ last' = Call("create_suggestion", u, <<clock', sid>>, r.ret)
    /\ UNCHANGED procs

UpdateSuggestionAccepted(u, id, accepted) ==
    LET r == update_suggestion_accepted(store, u, id, accepted)
    IN  /\ store' = r.st
        /\ last' = Call("update_suggestion_accepted", u, <<id>>, r.ret)
        /\ UNCHANGED <<clock, procs>>

\* The driver raises (store unreachable, pool exhausted): the statement's
\* transaction commits nothing.
StoreOps ==
    {"create_task", "update_task", "find_or_create_project", "find_or_create_area",
     "create_triage_session", "create_suggestion", "update_suggestion_accepted"}

StoreCallFails(op, u) ==
    /\ last' = Call(op, u, <<>>, Raised("store"))
    /\ UNCHANGED <<store, clock, procs>>

Next ==
    \/ \E u \in UserIds : CreateUser(u)
    \/ \E u \in UserIds, s \in Statuses : CreateTask(u, s)
    \/ \E u \in UserIds, n \in Names : FindOrCreateProject(u, n)
    \/ \E u \in UserIds, n \in Names : FindOrCreateArea(u, n)
    \/ \E u \in UserIds, t \in Texts : CreateTriageSession(u, t)
    \/ \E u \in UserIds, sid \in {x.id : x \in store.sessions} \cup {0} : CreateSuggestion(u, sid)
    \/ \E op \in StoreOps : StoreCallFails(op, "")

Spec == Init /\ [][Next]_vars

\* ===================================================================
\* Properties of the store under Spec
\* ===================================================================

\* Users holding an OWNS edge to a node, read off the edge bag.
OwnersOf(id) == {u \in UserIds : EdgeCount(store, "OWNS", u, id) > 0}

OwnedNodes ==
    store.tasks \cup store.projects \cup store.areas
        \cup store.sessions \cup store.suggestions

\* Calls that create an owned node, and the id of the entity one returned.
CreateOps ==
    {"create_task", "create_triage_session", "create_suggestion",
     "find_or_create_project", "find_or_create_area"}

ReturnedId(call) ==
    IF call.op \in {"find_or_create_project", "find_or_create_area"}
    THEN call.ret.val.id
    ELSE call.ret.val

\* C1: a Task or TriageSession owned by A is returned by get_task /
\* get_triage_session to A only; any other user B gets None, the same result
\* as for id 0, which exists nowhere.
C1_OwnershipIsolation ==
    \A A \in UserIds, B \in UserIds :
        /\ \A t \in store.tasks :
             A \in OwnersOf(t.id) =>
                /\ get_task(store, A, t.id) = Some(t)
                /\ B # A => /\ get_task(store, B, t.id) = None
                            /\ get_task(store, B, t.id) = get_task(store, B, 0)
        /\ \A ts \in store.sessions :
             A \in OwnersOf(ts.id) =>
                /\ get_triage_session(store, A, ts.id) = Some(ts)
                /\ B # A => /\ get_triage_session(store, B, ts.id) = None
                            /\ get_triage_session(store, B, ts.id)
                                 = get_triage_session(store, B, 0)

\* Both users exist, u1 owns a task and a session and u2 owns a task of its own.
C1_Witness ==
    /\ store.users = UserIds
    /\ \E t \in store.tasks : OwnersOf(t.id) = {"u1"} /\ get_task(store, "u2", t.id) = None
    /\ \E t \in store.tasks : OwnersOf(t.id) = {"u2"} /\ get_task(store, "u1", t.id) = None
    /\ \E ts \in store.sessions :
          OwnersOf(ts.id) = {"u1"} /\ get_triage_session(store, "u2", ts.id) = None

\* C2: every Task, Project, Area, TriageSession and Suggestion node has exactly
\* one incoming OWNS edge, from one existing User; a create for a missing owner
\* or a failed create leaves no node behind.
C2_ExactlyOneOwner ==
    /\ \A n \in OwnedNodes :
          /\ Cardinality(OwnersOf(n.id)) = 1
          /\ \A u \in OwnersOf(n.id) :
                u \in store.users /\ EdgeCount(store, "OWNS", u, n.id) = 1
    /\ \A e \in BagToSet(store.edges) :
          e[1] = "OWNS" => \E n \in OwnedNodes : n.id = e[3]
    /\ (last.op \in CreateOps /\ last.ret.kind = "some" /\ last.user \notin store.users)
          => \A n \in OwnedNodes : n.id # ReturnedId(last)

\* A session with its suggestion exists, and the last call was a create naming
\* an owner that has no User node.
C2_Witness ==
    /\ store.suggestions # {}
    /\ last.op \in CreateOps
    /\ last.ret.kind = "some"
    /\ last.user \notin store.users

\* C3: the list operations return exactly the caller's entities of the type,
\* restricted to the status / session given, without repetition.
C3_ListsScoped ==
    \A B \in UserIds :
        /\ \A s \in Statuses \cup {"DONE", ""} :
             LET rows == list_tasks(store, B, s)
             IN  /\ Range(rows) = {t \in store.tasks :
                                     B \in OwnersOf(t.id) /\ (s = "" \/ t.status = s)}
                 /\ Len(rows) = Cardinality(Range(rows))
        /\ list_projects(store, B) = {p \in store.projects : B \in OwnersOf(p.id)}
        /\ list_areas(store, B) = {a \in store.areas : B \in OwnersOf(a.id)}
        /\ \A sid \in KnownIds :
             LET rows == get_suggestions_for_session(store, B, sid)
             IN  /\ Range(rows) = {s \in store.suggestions :
                                     /\ B \in OwnersOf(s.id)
                                     /\ EdgeCount(store, "PRODUCED", sid, s.id) > 0}
                 /\ Len(rows) = Cardinality(Range(rows))

\* Both users hold tasks, u1 of two statuses, and u1 holds a suggestion.
C3_Witness ==
    /\ Len(list_tasks(store, "u2", "")) >= 1
    /\ Len(list_tasks(store, "u1", "NEXT")) >= 1
    /\ Len(list_tasks(store, "u1", "")) > Len(list_tasks(store, "u1", "NEXT"))

\* Several owners hold suggestions: u1's session lists its suggestion to u1
\* and nothing to u2.
C3_WitnessSuggestions ==
    \E ts \in store.sessions :
        /\ Len(get_suggestions_for_session(store, "u1", ts.id)) = 1
        /\ Len(get_suggestions_for_session(store, "u2", ts.id)) = 0
        /\ "u2" \in store.users

\* C5 (as claimed): a create naming an owner without a User node raises a
\* store error and never returns the entity id.
C5_MissingOwnerRaises ==
    (/\ last.op \in {"create_task", "create_triage_session", "create_suggestion"}
     /\ last.user \notin store.users)
        => last.ret.kind = "raise"

\* At most one Project and one Area per owner and case-folded name.
UniqueFoldedNames ==
    \A u \in UserIds :
        /\ \A p \in store.projects, q \in store.projects :
             (u \in OwnersOf(p.id) /\ u \in OwnersOf(q.id)
                 /\ toLower(p.name) = toLower(q.name)) => p = q
        /\ \A a \in store.areas, b \in store.areas :
             (u \in OwnersOf(a.id) /\ u \in OwnersOf(b.id)
                 /\ toLower(a.name) = toLower(b.name)) => a = b

FindOrCreateOps == {"find_or_create_project", "find_or_create_area"}

\* Two calls one after the other, same operation and owner, names equal up to case.
SameNameTwice ==
    /\ last.op \in FindOrCreateOps
    /\ last'.op = last.op
    /\ last'.user = last.user
    /\ last.ret.kind = "some" /\ last'.ret.kind = "some"
    /\ toLower(last'.name) = toLower(last.name)

\* C6 (as claimed): for any owner, two sequential find_or_create calls with
\* case variants of one name return the same id, an owner never holds two
\* Projects (Areas) of one case-folded name, and the entity returned to one
\* owner is never one of another owner.
C6_FindOrCreateSameId ==
    /\ [][SameNameTwice => last'.ret.val.id = last.ret.val.id]_vars
    /\ [](UniqueFoldedNames)
    /\ [](last.op \in FindOrCreateOps /\ last.ret.kind = "some"
            => OwnersOf(last.ret.val.id) \subseteq {last.user})

\* What does hold: for an owner with a User node the second call returns the
\* id of the first.
FindOrCreateSameIdForUser ==
    [][(SameNameTwice /\ last.user \in store.users)
          => last'.ret.val.id = last.ret.val.id]_vars

\* ===================================================================
\* Specification SpecLink: on a store holding tasks, a project and an area
\* the relationship helpers are called, any number of times, with any ids.
\* ===================================================================

CreateTaskPartOfProject(tid, pid) ==
    /\ store' = create_task_part_of_project(store, tid, pid)
    /\ last' = Repeated(Call("create_task_part_of_project", "", <<tid, pid>>, None))
    /\ UNCHANGED <<clock, procs>>

CreateTaskInArea(tid, aid) ==
    /\ store' = create_task_in_area(store, tid, aid)
    /\ last' = Repeated(Call("create_task_in_area", "", <<tid, aid>>, None))
    /\ UNCHANGED <<clock, procs>>

CreateTaskDuplicateOf(tid, eid) ==
    /\ store' = create_task_duplicate_of(store, tid, eid)
    /\ last' = Repeated(Call("create_task_duplicate_of", "", <<tid, eid>>, None))
    /\ UNCHANGED <<clock, procs>>

LinkOps ==
    {"create_task_part_of_project", "create_task_in_area", "create_task_duplicate_of"}

LinkEdges(st) ==
    {e \in BagToSet(st.edges) : e[1] \in {"PART_OF", "IN_AREA", "DUPLICATE_OF"}}

LinkCount(st) ==
    LET S == LinkEdges(st)
        RECURSIVE Sum(_)
        Sum(T) == IF T = {} THEN 0
                  ELSE LET e == CHOOSE x \in T : TRUE
                       IN  CopiesIn(e, st.edges) + Sum(T \ {e})
    IN  Sum(S)

\* Ids of one label, and 0 for an id that names no node.
IdsOf(nodes) == {x.id : x \in nodes} \cup {0}

\* The store after two signups and four creates: u1 holds task 1, project 3
\* and area 4, u2 holds task 2.
LinkedStore ==
    LET s0 == create_user(create_user(EmptyStore, "u1").st, "u2").st
        s1 == create_task(s0, "u1", TaskNode(1, <<"t">>, "INBOX", 1)).st
        s2 == create_task(s1, "u2", TaskNode(2, <<"t">>, "INBOX", 2)).st
        s3 == find_or_create_project(s2, "u1", <<"H", "i">>, "", 3).st
    IN  find_or_create_area(s3, "u1", <<"G", "o">>, 4).st

InitLink ==
    /\ store = LinkedStore
    /\ clock = 4
    /\ last = Call("init", "", <<>>, None)
    /\ procs = NoProcs

NextLink ==
    \/ \E t \in IdsOf(store.tasks), p \in IdsOf(store.projects) :
          CreateTaskPartOfProject(t, p) /\ LinkCount(store') <= MaxLinks
    \/ \E t \in IdsOf(store.tasks), a \in IdsOf(store.areas) :
          CreateTaskInArea(t, a) /\ LinkCount(store') <= MaxLinks
    \/ \E t \in IdsOf(store.tasks), e \in IdsOf(store.tasks) :
          CreateTaskDuplicateOf(t, e) /\ LinkCount(store') <= MaxLinks

SpecLink == InitLink /\ [][NextLink]_vars

LinkType(op) ==
    CASE op = "create_task_part_of_project" -> "PART_OF"
      [] op = "create_task_in_area" -> "IN_AREA"
      [] op = "create_task_duplicate_of" -> "DUPLICATE_OF"

\* Both ends of a relationship helper's call exist with the labels it matches.
LinkEndsExist(st, call) ==
    /\ \E t \in st.tasks : t.id = call.arg[1]
    /\ CASE call.op = "create_task_part_of_project" ->
                \E p \in st.projects : p.id = call.arg[2]
         [] call.op = "create_task_in_area" ->
                \E a \in st.areas : a.id = call.arg[2]
         [] call.op = "create_task_duplicate_of" ->
                \E e \in st.tasks : e.id = call.arg[2]

\* A step that is a call of a relationship helper.
LinkStep == last'.op \in LinkOps /\ last' # last

\* C8: after one or more calls of a relationship helper with the same
\* (from, to) pair there is exactly one edge of its type between the two
\* nodes, and a call changes nothing but (at most) that edge.
C8_LinkIdempotent ==
    /\ [](\A e \in BagToSet(store.edges) :
              e[1] \in {"PART_OF", "IN_AREA", "DUPLICATE_OF"}
                  => CopiesIn(e, store.edges) = 1)
    /\ []((last.op \in LinkOps /\ LinkEndsExist(store, last))
              => EdgeCount(store, LinkType(last.op), last.arg[1], last.arg[2]) = 1)
    /\ [][LinkStep =>
            /\ \A f \in DOMAIN store : f # "edges" => store'[f] = store[f]
            /\ \A e \in BagToSet(store.edges) \cup BagToSet(store'.edges) :
                  e # Edge(LinkType(last'.op), last'.arg[1], last'.arg[2])
                      => CopiesIn(e, store'.edges) = CopiesIn(e, store.edges)
            /\ last'.n > 1 => store' = store]_vars

\* A helper was called a second time in a row on a pair of existing nodes,
\* while the task has a relationship of another type as well.
C8_RepeatedCall ==
    /\ last.op \in LinkOps
    /\ last.n >= 2
    /\ LinkEndsExist(store, last)
    /\ EdgeCount(store, LinkType(last.op), last.arg[1], last.arg[2]) = 1
    /\ \E e \in BagToSet(store.edges) :
          /\ e[1] \in {"PART_OF", "IN_AREA", "DUPLICATE_OF"} \ {LinkType(last.op)}
          /\ e[2] = last.arg[1]

\* ===================================================================
\* Specification SpecRace: NumProcs callers run find_or_create_project /
\* find_or_create_area at the same time.  Each call is two statements on
\* the shared store, the lookup and the create, and the store runs the
\* statements of different callers in any order.
\* ===================================================================

Procs == 1..NumProcs

IdleProc == [pc |-> "idle", op |-> "", user |-> "", name |-> <<>>, new_id |-> 0, ret |-> None]

\* Both users have signed up.
InitRace ==
    /\ store = create_user(create_user(EmptyStore, "u1").st, "u2").st
    /\ clock = 0
    /\ last = Call("init", "", <<>>, None)
    /\ procs = [p \in Procs |-> IdleProc]

\* A caller enters find_or_create_project / find_or_create_area.
RaceCall(p, op, u, name) ==
    /\ procs[p].pc = "idle"
    /\ procs' = [procs EXCEPT ![p] = [IdleProc EXCEPT !.pc = "lookup", !.op = op,
                                                      !.user = u, !.name = name]]
    /\ UNCHANGED <<store, clock, last>>

RaceFound(p) ==
    IF procs[p].op = "find_or_create_project"
    THEN project_lookup(store, procs[p].user, procs[p].name)
    ELSE area_lookup(store, procs[p].user, procs[p].name)

\* The lookup statement; RETURN ... LIMIT 1 hands back any one matching row.
\* With no row the caller draws new_id = _new_id() and goes on to the create.
RaceLookup(p) ==
    /\ procs[p].pc = "lookup"
    /\ IF RaceFound(p) # {}
       THEN /\ \E x \in RaceFound(p) :
                 procs' = [procs EXCEPT ![p].pc = "done", ![p].ret = Some(x)]
            /\ UNCHANGED clock
       ELSE /\ Tick
            /\ procs' = [procs EXCEPT ![p].pc = "create", ![p].new_id = clock']
    /\ UNCHANGED <<store, last>>

\* The create statement, and the return of the new node.
RaceCreate(p) ==
    /\ procs[p].pc = "create"
    /\ LET c == procs[p]
       IN  IF c.op = "find_or_create_project"
           THEN /\ store' = project_create(store, c.user, c.new_id, c.name, "")
                /\ procs' = [procs EXCEPT ![p].pc = "done",
                                ![p].ret = Some(ProjectNode(c.new_id, c.name, ""))]
           ELSE /\ store' = area_create(store, c.user, c.new_id, c.name)
                /\ procs' = [procs EXCEPT ![p].pc = "done",
                                ![p].ret = Some(AreaNode(c.new_id, c.name))]
    /\ UNCHANGED <<clock, last>>

NextRace ==
    \/ \E p \in Procs, op \in FindOrCreateOps, u \in UserIds, n \in Names :
          RaceCall(p, op, u, n)
    \/ \E p \in Procs : RaceLookup(p)
    \/ \E p \in Procs : RaceCreate(p)

SpecRace == InitRace /\ [][NextRace]_vars

\* Two callers of the same operation for the same owner and case-folded name.
SameTarget(p, q) ==
    /\ procs[p].op = procs[q].op
    /\ procs[p].user = procs[q].user
    /\ toLower(procs[p].name) = toLower(procs[q].name)

\* C7 (as claimed): whatever the interleaving of the callers' statements, an
\* owner holds at most one node per case-folded name and all callers for the
\* same owner and name are handed the same id.
C7_RaceSafe ==
    /\ UniqueFoldedNames
    /\ \A p \in Procs, q \in Procs :
          (procs[p].pc = "done" /\ procs[q].pc = "done" /\ SameTarget(p, q))
              => procs[p].ret.val.id = procs[q].ret.val.id

\* What does hold: a caller that finds the name hands back an existing node
\* of the owner, and a caller that creates hands back the node it created.
RaceReturnsOwnedNode ==
    \A p \in Procs :
        procs[p].pc = "done" =>
            /\ procs[p].ret.val.id \in
                  {x.id : x \in IF procs[p].op = "find_or_create_project"
                                THEN store.projects ELSE store.areas}
            /\ OwnersOf(procs[p].ret.val.id) = {procs[p].user}

\* ===================================================================
\* The triage pipeline (core/services/triage_service.py)
\* ===================================================================

\* limit= of the duplicate search in run_triage.
SimilarLimit == 3

\* Similarity (in hundredths) a duplicate candidate has to exceed.
DuplicateThreshold == 85

\* Rows of each list _fetch_user_context keeps.
ContextLimit == 5

\* Python None where a string is expected (error, Optional[str] fields).
PyNone == "None"

\* str(bool) of the accepted flag as the store holds it.
BoolStr(b) == IF b THEN "True" ELSE "False"

\* embed_query: the text's vector, here a point on a line; texts that say
\* the same thing lie close together.
embed_query(text) ==
    CASE text = <<"p", "a", "y">> -> 10
      [] text = <<"P", "a", "y">> -> 11
      [] text = <<"c", "a", "l", "l">> -> 15
      [] text = <<"p", "a", "y", "s">> -> 13
      [] OTHER -> 19

\* Similarity of two vectors in hundredths: 100 for equal vectors, falling
\* with their distance.
Similarity(e1, e2) ==
    LET d == IF e1 >= e2 THEN e1 - e2 ELSE e2 - e1
    IN  IF d >= 20 THEN 0 ELSE 100 - 5 * d

\* Rows <<task, similarity>> of a set of tasks, least similar first.
RECURSIVE OrderByDistance(_, _)
OrderByDistance(S, embedding) ==
    IF S = {} THEN <<>>
    ELSE LET low == CHOOSE x \in S : \A y \in S :
                        Similarity(x.embedding, embedding)
                            <= Similarity(y.embedding, embedding)
         IN  <<<<low, Similarity(low.embedding, embedding)>>>>
                 \o OrderByDistance(S \ {low}, embedding)

\* Rows <<task, similarity>> of a set of tasks, most similar first.
RECURSIVE OrderBySimilarity(_, _)
OrderBySimilarity(S, embedding) ==
    IF S = {} THEN <<>>
    ELSE LET top == CHOOSE x \in S : \A y \in S :
                        Similarity(y.embedding, embedding)
                            <= Similarity(x.embedding, embedding)
         IN  <<<<top, Similarity(top.embedding, embedding)>>>>
                 \o OrderBySimilarity(S \ {top}, embedding)

\* The first k elements of a sequence (Python seq[:k]).
Take(seq, k) == SubSeq(seq, 1, IF Len(seq) < k THEN Len(seq) ELSE k)

\* A search that hands back the nearest tasks whoever owns them.
find_similar_tasks_of_all(st, user_id, embedding, limit) ==
    Take(OrderBySimilarity({t \in st.tasks : t.embedding # NoEmbedding}, embedding),
         limit)

\* CALL vector_search.search(idx, $limit, $embedding) YIELD node, similarity
\* MATCH (u:User {id})-[:OWNS]->(t) RETURN t, similarity ORDER BY similarity DESC:
\* the index hands back the $limit nearest tasks of all users, the MATCH
\* keeps the caller's.
find_similar_tasks(st, user_id, embedding, limit) ==
    LET indexed == {t \in st.tasks : t.embedding # NoEmbedding}
        nearest == Take(OrderBySimilarity(indexed, embedding), limit)
    IN  SelectSeq(nearest, LAMBDA row : Owns(st, user_id, row[1].id))

\* The elements of a set as a sequence, in some order.
RECURSIVE Rows(_)
Rows(S) ==
    IF S = {} THEN <<>>
    ELSE LET x == CHOOSE y \in S : TRUE IN <<x>> \o Rows(S \ {x})

EmptyContext ==
    [recent_projects |-> <<>>, active_areas |-> <<>>, recent_decisions |-> <<>>]

\* A context fetch that hands back the NEXT tasks whether or not a query failed.
fetch_user_context_unguarded(st, user_id, store_up) ==
    LET next_tasks == Take(list_tasks(st, user_id, "NEXT"), ContextLimit)
    IN  [recent_projects |-> <<>>, active_areas |-> <<>>,
         recent_decisions |->
            [i \in DOMAIN next_tasks |->
                [title |-> next_tasks[i].title, status |-> next_tasks[i].status]]]

\* _fetch_user_context: up to ContextLimit projects, areas and NEXT tasks of
\* the user; a store error is swallowed and gives the empty context.
fetch_user_context(st, user_id, store_up) ==
    IF ~store_up THEN EmptyContext
    ELSE LET projects == Take(Rows(list_projects(st, user_id)), ContextLimit)
             areas == Take(Rows(list_areas(st, user_id)), ContextLimit)
             next_tasks == Take(list_tasks(st, user_id, "NEXT"), ContextLimit)
         IN  [recent_projects |->
                 [i \in DOMAIN projects |->
                     [name |-> projects[i].name, outcome |-> projects[i].outcome]],
              active_areas |-> [i \in DOMAIN areas |-> [name |-> areas[i].name]],
              recent_decisions |->
                 [i \in DOMAIN next_tasks |->
                     [title |-> next_tasks[i].title, status |-> next_tasks[i].status]]]

\* dict.get(key, default)
Get(d, key, default) == IF key \in DOMAIN d THEN d[key] ELSE default

\* -------------------------------------------------------------------
\* llm_service: the validator of the LLM's answer and the client with its
\* one retry.
\* -------------------------------------------------------------------

VALID_STATUSES ==
    {"INBOX", "NEXT", "IN_PROGRESS", "WAITING", "SOMEDAY", "DONE", "ARCHIVED"}

\* A set of efforts that has grown by one size.
efforts_with_xxl == {"XS", "S", "M", "L", "XL", "XXL"}

VALID_EFFORTS == {"XS", "S", "M", "L", "XL"}

\* required = ["action_title", "description", "status", "priority", "urgency", "effort"]
RequiredFields ==
    {"action_title", "description", "status", "priority", "urgency", "effort"}

\* Ends of the range priority and urgency are clamped into.
ClampLow == 1
ClampHigh == 5

\* Most characters kept of action_title, description and next_action.
TitleCap == 200
DescriptionCap == 2000
NextActionCap == 500

\* Most entries kept of project_suggestions and area_suggestions.
ListCap == 10

\* Requests the client makes at most: range(2).
Attempts == 2

\* A JSON value where a number is expected: a number, a string that is not
\* a numeral, or null.
Number(n) == [json |-> "number", val |-> n]

\* A JSON value where a name is expected: a string, or an object
\* {"name": ...} as the prompt asks for in project_suggestions and
\* area_suggestions.
Str(chars) == [json |-> "string", val |-> chars]
Obj(chars) == [json |-> "object", val |-> chars]
Word == [json |-> "string", val |-> 0]
Null == [json |-> "null", val |-> 0]

\* int(v): the number itself; ValueError for a string that is not a
\* numeral, TypeError for None.
py_int(v) ==
    IF v.json = "number" THEN Some(v.val)
    ELSE IF v.json = "string" THEN Raised("ValueError")
    ELSE Raised("TypeError")

Min(a, b) == IF a <= b THEN a ELSE b
Max(a, b) == IF a >= b THEN a ELSE b

\* A clamp that keeps the upper end only.
clamp_high_only(v) == Min(ClampHigh, v)

\* max(1, min(5, v))
clamp(v) == Max(ClampLow, Min(ClampHigh, v))

\* A cut that keeps one character more than the cap.
cut_late(text, cap) == Take(text, cap + 1)

\* str(...)[:cap]
cut(text, cap) == Take(text, cap)

\* for field in required: if field not in item: raise
has_required(item) == \A field \in RequiredFields : field \in DOMAIN item

\* One turn of the loop of _validate_triage_response: the cleaned item, or
\* the exception the turn raises.
validate_item(item) ==
    IF item.json # "object" THEN Raised("ValueError")
    ELSE IF ~has_required(item) THEN Raised("ValueError")
    ELSE IF item.status \notin VALID_STATUSES THEN Raised("ValueError")
    ELSE IF item.effort \notin VALID_EFFORTS THEN Raised("ValueError")
    ELSE
      LET priority == py_int(item.priority)
          urgency == py_int(item.urgency)
      IN  IF priority.kind = "raise" THEN priority
          ELSE IF urgency.kind = "raise" THEN urgency
          ELSE Some(
            [raw_text |-> Get(item, "raw_text", <<>>),
             action_title |-> cut(item.action_title, TitleCap),
             description |-> cut(item.description, DescriptionCap),
             status |-> item.status,
             priority |-> clamp(priority.val),
             urgency |-> clamp(urgency.val),
             effort |-> item.effort,
             para_bucket |-> Get(item, "para_bucket", "ARCHIVE"),
             project_suggestions |->
                 Take(Get(item, "project_suggestions", <<>>), ListCap),
             area_suggestions |->
                 Take(Get(item, "area_suggestions", <<>>), ListCap),
             needs_clarification |-> Get(item, "needs_clarification", FALSE),
             clarifying_questions |-> Get(item, "clarifying_questions", <<>>),
             duplicate_candidates |-> Get(item, "duplicate_candidates", <<>>),
             next_action |-> cut(Get(item, "next_action", <<>>), NextActionCap)])

\* The cleaned items so far and the rest of the loop, where an invalid item
\* is left out and the loop goes on.
append_skipping(head, rest) ==
    IF head.kind = "raise" THEN rest ELSE Some(<<head.val>> \o rest.val)

\* cleaned_items.append(cleaned_item) and the rest of the loop; an exception
\* ends the loop and nothing of it is kept.
append(head, rest) ==
    IF head.kind = "raise" THEN head
    ELSE IF rest.kind = "raise" THEN rest
    ELSE Some(<<head.val>> \o rest.val)

\* The loop over data["items"]: the cleaned items in order, or the first
\* exception.
RECURSIVE validate_items(_)
validate_items(items) ==
    IF items = <<>> THEN Some(<<>>)
    ELSE append(validate_item(Head(items)), validate_items(Tail(items)))

\* return {"items": cleaned_items}
validated_response(cleaned_items) ==
    IF cleaned_items.kind = "raise" THEN cleaned_items
    ELSE Some([items |-> cleaned_items.val])

\* _validate_triage_response.  data is what json.loads gave: a JSON value
\* tagged with its kind; an object has the key "items" or not, and the
\* value under it is tagged in turn.
validate_triage_response(data) ==
    IF data.json # "object" THEN Raised("ValueError")
    ELSE IF "items" \notin DOMAIN data THEN Raised("ValueError")
    ELSE IF data.items.json # "array" THEN Raised("ValueError")
    ELSE validated_response(validate_items(data.items.val))

\* What the client gets for one request: the call raises, or it hands back
\* a text that json.loads rejects or turns into data.
ClientError == [http |-> "error"]
Unparsable == [http |-> "ok", json |-> "unparsable"]
Parsed(data) == [http |-> "ok", json |-> "parsed", data |-> data]

Whitespace == {" ", "\t", "\n"}

\* text.strip()
RECURSIVE strip(_)
strip(text) ==
    IF text = <<>> THEN text
    ELSE IF Head(text) \in Whitespace THEN strip(Tail(text))
    ELSE IF text[Len(text)] \in Whitespace THEN strip(SubSeq(text, 1, Len(text) - 1))
    ELSE text

\* The message sent with each request: built once from the text and the context.
user_prompt(text, context) == [text |-> text, context |-> context]

\* One turn of the loop of attempts: the validated answer, or the exception
\* the request, json.loads or the validator raises.
attempt_outcome(response) ==
    IF response.http = "error" THEN Raised("llm")
    ELSE IF response.json = "unparsable" THEN Raised("JSONDecodeError")
    ELSE validate_triage_response(response.data)

\* Except clauses that go round again on attempt 0 whatever was raised.
handled_retrying_all(prompt, outcome, attempt, rest) ==
    IF outcome.kind = "raise"
    THEN IF attempt = 0
         THEN [rest EXCEPT !.requests = <<prompt>> \o @]
         ELSE [ret |-> outcome, requests |-> <<prompt>>]
    ELSE [ret |-> outcome, requests |-> <<prompt>>]

\* The except clauses: a JSONDecodeError or a ValueError goes round again on
\* attempt 0 and raises ValueError on a later attempt; any other exception
\* leaves at once.  rest is what the later attempts come to.
handled(prompt, outcome, attempt, rest) ==
    IF outcome.kind = "raise" /\ outcome.err \in {"JSONDecodeError", "ValueError"}
    THEN IF attempt = 0
         THEN [rest EXCEPT !.requests = <<prompt>> \o @]
         ELSE [ret |-> Raised("ValueError"), requests |-> <<prompt>>]
    ELSE [ret |-> outcome, requests |-> <<prompt>>]

\* for attempt in range(2).  responses[k] is what the k-th request would be
\* answered with; requests are the messages sent.  A loop that runs out
\* returns None.
RECURSIVE attempts(_, _, _)
attempts(prompt, responses, attempt) ==
    IF attempt >= Attempts THEN [ret |-> None, requests |-> <<>>]
    ELSE handled(prompt, attempt_outcome(responses[attempt + 1]), attempt,
                 attempts(prompt, responses, attempt + 1))

\* A check of the text that lets whitespace through.
is_empty_exact(text) == text = <<>>

\* not text or not text.strip()
is_empty(text) == text = <<>> \/ strip(text) = <<>>

\* llm_service.triage_brain_dump: an empty brain dump raises ValueError before
\* the model is asked; otherwise the loop of attempts decides.
triage_brain_dump(text, context, responses) ==
    IF is_empty(text) THEN [ret |-> Raised("ValueError"), requests |-> <<>>]
    ELSE attempts(user_prompt(text, context), responses, 0)

\* Items of an LLM answer that pass the validator unchanged.
LLMItems ==
    {[json |-> "object",
      raw_text |-> <<"r">>, action_title |-> <<"p", "a", "y">>,
      description |-> <<"d">>,
      status |-> "NEXT", priority |-> Number(4), urgency |-> Number(5),
      effort |-> "S",
      para_bucket |-> "PROJECT", project_suggestions |-> <<Str(<<"H", "i">>)>>,
      area_suggestions |-> <<>>, needs_clarification |-> FALSE,
      clarifying_questions |-> <<>>, duplicate_candidates |-> <<>>,
      next_action |-> <<"g", "o">>],
     [json |-> "object",
      raw_text |-> <<"R">>, action_title |-> <<"P", "a", "y">>,
      description |-> <<>>,
      status |-> "INBOX", priority |-> Number(3), urgency |-> Number(3),
      effort |-> "M",
      para_bucket |-> "ARCHIVE", project_suggestions |-> <<>>,
      area_suggestions |-> <<>>, needs_clarification |-> FALSE,
      clarifying_questions |-> <<>>, duplicate_candidates |-> <<>>,
      next_action |-> <<>>]}

\* A JSON object with the items given.
Data(items) == [json |-> "object", items |-> [json |-> "array", val |-> items]]

\* [{"task_id": t.id, "reason": ...} for t, sim in similar_tasks if sim > 0.85]
duplicate_candidates(similar_tasks) ==
    LET dups == SelectSeq(similar_tasks, LAMBDA row : row[2] > DuplicateThreshold)
    IN  [i \in DOMAIN dups |->
            [task_id |-> dups[i][1].id, reason |-> <<dups[i][2], dups[i][1].title>>]]

\* The payload of the suggestion for an item: the item's fields and the
\* duplicate candidates among the tasks the search found.
suggestion_payload(item, similar_tasks) ==
    [raw_text |-> item.raw_text,
     action_title |-> item.action_title,
     description |-> item.description,
     status |-> item.status,
     priority |-> item.priority,
     urgency |-> item.urgency,
     effort |-> item.effort,
     para_bucket |-> item.para_bucket,
     project_suggestions |-> item.project_suggestions,
     area_suggestions |-> item.area_suggestions,
     needs_clarification |-> item.needs_clarification,
     clarifying_questions |-> item.clarifying_questions,
     duplicate_candidates |-> duplicate_candidates(similar_tasks),
     next_action |-> item.next_action]

\* The loop of run_triage over the items.  fail_at = k > 0: a call made for
\* the k-th item (embed_query, find_similar_tasks or create_suggestion)
\* raises; what the earlier items stored stays stored.
RECURSIVE triage_items(_, _, _, _, _, _)
triage_items(st, user_id, session_id, items, clk, fail_at) ==
    IF items = <<>>
    THEN [st |-> st, clk |-> clk, suggestions |-> <<>>, raised |-> FALSE]
    ELSE IF fail_at = 1
    THEN [st |-> st, clk |-> clk, suggestions |-> <<>>, raised |-> TRUE]
    ELSE LET item == Head(items)
             embedding == embed_query(item.action_title)
             similar_tasks == find_similar_tasks(st, user_id, embedding, SimilarLimit)
             payload == suggestion_payload(item, similar_tasks)
             suggestion == SuggestionNode(clk + 1, clk + 1, payload, BoolStr(FALSE))
             r == create_suggestion(st, user_id, session_id, suggestion)
             rest == triage_items(r.st, user_id, session_id, Tail(items), clk + 1,
                                  IF fail_at = 0 THEN 0 ELSE fail_at - 1)
         IN  [rest EXCEPT !.suggestions = <<suggestion>> \o @]

\* run_triage.  env: store_up (create_triage_session goes through),
\* context_up (the context reads go through), llm (the client's answers),
\* fail_at (see triage_items).  Yields the store, the clock and the result.
run_triage(st, user_id, brain_dump, clk, env) ==
    LET session_id == clk + 1
        session == TriageSessionNode(session_id, session_id, brain_dump)
        Failed(s, c, e) ==
            [st |-> s, clk |-> c,
             ret |-> Some([session_id |-> session_id, suggestions |-> <<>>, error |-> e])]
    IN  IF ~env.store_up THEN Failed(st, session_id, "store")
        ELSE
          LET r == create_triage_session(st, user_id, session)
              context == fetch_user_context(r.st, user_id, env.context_up)
              triage_result == triage_brain_dump(brain_dump, context, env.llm).ret
          IN  IF triage_result.kind # "some"
              THEN Failed(r.st, session_id, triage_result.err)
              ELSE
                LET it == triage_items(r.st, user_id, session_id, triage_result.val.items,
                                       session_id, env.fail_at)
                IN  IF it.raised THEN Failed(it.st, it.clk, "item")
                    ELSE [st |-> it.st, clk |-> it.clk,
                          ret |-> Some([session_id |-> session_id,
                                        suggestions |-> it.suggestions,
                                        error |-> PyNone])]

\* Python `a or b` for values whose falsy value is `zero`.
Or(a, b, zero) == IF a = zero THEN b ELSE a

\* payload.get("action_title", "Untitled Task")
UntitledTask == <<"U", "n", "t", "i", "t", "l", "e", "d", " ", "T", "a", "s", "k">>

\* d.get("id") of a decision that carries no id.
NoId == 0 - 1

\* edited_data: a JSON object with the edited fields as keys; without a key
\* it is the {} of d.get("edited_data", {}).
NoEdit == [json |-> "object"]

EditedData ==
    {NoEdit,
     [json |-> "object", action_title |-> <<"c", "a", "l", "l">>,
      area_suggestions |-> <<Str(<<"G", "o">>)>>]}

\* for p_name in projs: find_or_create_project, create_task_part_of_project.
\* n counts the calls made so far that can raise; the fail_at-th raises, and
\* so does find_or_create_project for a name that is no string: the store
\* rejects toLower($name) for a map.
RECURSIVE link_projects(_, _, _, _, _, _, _)
link_projects(st, user_id, task_id, names, clk, n, fail_at) ==
    IF names = <<>> THEN [st |-> st, clk |-> clk, n |-> n, raised |-> FALSE]
    ELSE IF n + 1 = fail_at \/ Head(names).json # "string"
    THEN [st |-> st, clk |-> clk, n |-> n + 1, raised |-> TRUE]
    ELSE LET r == find_or_create_project(st, user_id, Head(names).val, "", clk + 1)
             clk1 == IF r.drew THEN clk + 1 ELSE clk
         IN  IF n + 2 = fail_at
             THEN [st |-> r.st, clk |-> clk1, n |-> n + 2, raised |-> TRUE]
             ELSE link_projects(create_task_part_of_project(r.st, task_id, r.ret.val.id),
                                user_id, task_id, Tail(names), clk1, n + 2, fail_at)

\* for a_name in areas: find_or_create_area, create_task_in_area.
RECURSIVE link_areas(_, _, _, _, _, _, _)
link_areas(st, user_id, task_id, names, clk, n, fail_at) ==
    IF names = <<>> THEN [st |-> st, clk |-> clk, n |-> n, raised |-> FALSE]
    ELSE IF n + 1 = fail_at \/ Head(names).json # "string"
    THEN [st |-> st, clk |-> clk, n |-> n + 1, raised |-> TRUE]
    ELSE LET r == find_or_create_area(st, user_id, Head(names).val, clk + 1)
             clk1 == IF r.drew THEN clk + 1 ELSE clk
         IN  IF n + 2 = fail_at
             THEN [st |-> r.st, clk |-> clk1, n |-> n + 2, raised |-> TRUE]
             ELSE link_areas(create_task_in_area(r.st, task_id, r.ret.val.id),
                             user_id, task_id, Tail(names), clk1, n + 2, fail_at)

\* edited_data.get(key) or payload.get(key, default).
merged(edited_data, payload, key, default, zero) ==
    Or(Get(edited_data, key, zero), Get(payload, key, default), zero)

\* The TaskNode apply_suggestions builds from the merged payload.
merged_task(task_id, final_title, edited_data, payload) ==
    [TaskNode(task_id, final_title,
              merged(edited_data, payload, "status", "INBOX", ""), task_id)
     EXCEPT
       !.priority = merged(edited_data, payload, "priority", 3, 0),
       !.urgency = merged(edited_data, payload, "urgency", 3, 0),
       !.effort = merged(edited_data, payload, "effort", "M", ""),
       !.description = merged(edited_data, payload, "description", <<>>, <<>>),
       !.next_action = merged(edited_data, payload, "next_action", <<>>, <<>>),
       !.energy_signal = Get(payload, "energy_signal", PyNone),
       !.embedding = embed_query(final_title)]

\* The loop over the areas follows the loop over the projects unless that
\* one raised.
link_areas_after(pj, user_id, task_id, areas, fail_at) ==
    IF pj.raised THEN pj
    ELSE link_areas(pj.st, user_id, task_id, areas, pj.clk, pj.n, fail_at)

\* An accepted suggestion is materialized: the embedding, create_task, and
\* the projects and areas of the merged payload.
materialize(st, user_id, task_id, edited_data, payload, n, fail_at) ==
    IF n + 2 = fail_at \/ n + 3 = fail_at
    THEN [st |-> st, clk |-> task_id, n |-> fail_at, raised |-> TRUE]
    ELSE link_areas_after(
             link_projects(
                 create_task(st, user_id,
                             merged_task(task_id,
                                         merged(edited_data, payload, "action_title",
                                                UntitledTask, <<>>),
                                         edited_data, payload)).st,
                 user_id, task_id,
                 merged(edited_data, payload, "project_suggestions", <<>>, <<>>),
                 task_id, n + 3, fail_at),
             user_id, task_id,
             merged(edited_data, payload, "area_suggestions", <<>>, <<>>),
             fail_at)

\* A loop that materializes rejected suggestions as well.
after_update_whatever(st, user_id, sug_map, d, clk, n, fail_at) ==
    IF \A s \in sug_map : s.id # d.id
    THEN [st |-> st, clk |-> clk, n |-> n + 1, raised |-> FALSE]
    ELSE materialize(st, user_id, clk + 1, d.edited_data,
                     (CHOOSE s \in sug_map : s.id = d.id).payload_json, n, fail_at)

\* What follows update_suggestion_accepted in one turn of the loop: only an
\* accepted suggestion of the session is materialized.
after_update(st, user_id, sug_map, d, clk, n, fail_at) ==
    IF d.action # "accept" \/ \A s \in sug_map : s.id # d.id
    THEN [st |-> st, clk |-> clk, n |-> n + 1, raised |-> FALSE]
    ELSE materialize(st, user_id, clk + 1, d.edited_data,
                     (CHOOSE s \in sug_map : s.id = d.id).payload_json, n, fail_at)

\* One turn of the loop of apply_suggestions over the decisions.
apply_decision(st, user_id, sug_map, d, clk, n, fail_at) ==
    IF d.id = NoId \/ d.action = ""
    THEN [st |-> st, clk |-> clk, n |-> n, raised |-> FALSE]
    ELSE IF n + 1 = fail_at
    THEN [st |-> st, clk |-> clk, n |-> n + 1, raised |-> TRUE]
    ELSE after_update(update_suggestion_accepted(st, user_id, d.id,
                                                 BoolStr(d.action = "accept")).st,
                      user_id, sug_map, d, clk, n, fail_at)

\* A loop that goes on with the next decision after one has raised, and
\* raises in the end.
RECURSIVE apply_decisions_on(_, _, _, _, _, _, _)
apply_decisions_on(st, user_id, sug_map, decisions, clk, n, fail_at) ==
    IF decisions = <<>> THEN [st |-> st, clk |-> clk, n |-> n, raised |-> FALSE]
    ELSE LET r == apply_decision(st, user_id, sug_map, Head(decisions), clk, n, fail_at)
             rest == apply_decisions_on(r.st, user_id, sug_map, Tail(decisions),
                                        r.clk, r.n, fail_at)
         IN  [rest EXCEPT !.raised = r.raised \/ rest.raised]

RECURSIVE apply_decisions(_, _, _, _, _, _, _)
apply_decisions(st, user_id, sug_map, decisions, clk, n, fail_at) ==
    IF decisions = <<>> THEN [st |-> st, clk |-> clk, n |-> n, raised |-> FALSE]
    ELSE LET r == apply_decision(st, user_id, sug_map, Head(decisions), clk, n, fail_at)
         IN  IF r.raised THEN r
             ELSE apply_decisions(r.st, user_id, sug_map, Tail(decisions),
                                  r.clk, r.n, fail_at)

\* apply_suggestions.  fail_at = k > 0: the k-th call to the store or to the
\* embedding service raises, and the exception leaves apply_suggestions;
\* fail_at = 0: no call raises.
apply_suggestions(st, user_id, session_id, decisions, clk, fail_at) ==
    IF fail_at = 1 THEN [st |-> st, clk |-> clk, ret |-> Raised("upstream")]
    ELSE LET all_sugs == get_suggestions_for_session(st, user_id, session_id)
             sug_map == Range(all_sugs)
             r == apply_decisions(st, user_id, sug_map, decisions, clk, 1, fail_at)
         IN  [st |-> r.st, clk |-> r.clk,
              ret |-> IF r.raised THEN Raised("upstream") ELSE None]

\* ===================================================================
\* Specification SpecTriage: users sign up, run triage on brain dumps,
\* apply decisions on the suggestions and update tasks and suggestions,
\* each naming any owner id and any ids, while the store, the embedding
\* service and the LLM client may fail.
\* ===================================================================

BrainDumps == {<<"d">>, <<" ">>}

\* Answers of the LLM client to the requests of one run: every call raises,
\* or every answer carries the same items, up to MaxItems of them.
LLMOutcomes ==
    {[k \in 1..Attempts |-> ClientError]} \cup
    {[k \in 1..Attempts |-> Parsed(Data(items))] :
        items \in UNION {[1..k -> LLMItems] : k \in 0..MaxItems}}

TriageEnvs ==
    [store_up : BOOLEAN, context_up : BOOLEAN, llm : LLMOutcomes, fail_at : 0..MaxItems]

\* One environment for each way a run can go: with the store down nothing
\* else is asked; a call for the k-th item can raise only when the client
\* answered with k items or more.
Distinct(env) ==
    /\ ~env.store_up =>
          (~env.context_up /\ env.llm[1].http = "error" /\ env.fail_at = 0)
    /\ env.fail_at > 0 =>
          (env.llm[1].http = "ok" /\ env.fail_at <= Len(env.llm[1].data.items.val))

\* Decisions on the ids given: accepted with or without an edit, rejected,
\* without an action, and one that carries no id.  edited_data is read for
\* an accepted decision only.
Decisions(ids) ==
    [id : ids, action : {"accept"}, edited_data : EditedData]
        \cup [id : ids, action : {"reject", ""}, edited_data : {NoEdit}]
        \cup {[id |-> NoId, action |-> "accept", edited_data |-> NoEdit]}

\* Most calls apply_suggestions can make for a list of decisions that name no
\* project and no area: the read, and per decision the update, the embedding
\* and the create.
CallsOf(decisions) ==
    IF decisions = <<>> THEN 1
    ELSE IF \A i \in DOMAIN decisions :
                decisions[i].id = NoId \/ decisions[i].action = "" THEN 1
    ELSE IF \A i \in DOMAIN decisions : decisions[i].action # "accept" THEN 2
    ELSE MaxFail

DecisionLists(ids) == UNION {[1..k -> Decisions(ids)] : k \in 0..MaxDecisions}

RunTriage(u, text, env) ==
    LET r == run_triage(store, u, text, clock, env)
    IN  /\ Distinct(env)
        /\ r.clk <= MaxTriageClock
        /\ store' = r.st
        /\ clock' = r.clk
        /\ last' = [Call("run_triage", u, <<clock + 1>>, r.ret)
                        EXCEPT !.text = text, !.llm = env.llm]
        /\ UNCHANGED procs

ApplySuggestions(u, sid, decisions, fail_at) ==
    LET r == apply_suggestions(store, u, sid, decisions, clock, fail_at)
    IN  /\ fail_at <= CallsOf(decisions)
        /\ r.clk <= MaxTriageClock
        /\ fail_at > 0 => r.ret.kind = "raise"
        /\ store' = r.st
        /\ clock' = r.clk
        /\ last' = Call("apply_suggestions", u,
                        [i \in DOMAIN decisions |-> decisions[i].id], r.ret)
        /\ UNCHANGED procs

NextTriage ==
    \/ \E u \in UserIds : CreateUser(u)
    \/ \E u \in UserIds, text \in BrainDumps, env \in TriageEnvs : RunTriage(u, text, env)
    \/ \E u \in UserIds, sid \in IdsOf(store.sessions),
          decisions \in DecisionLists(IdsOf(store.suggestions)),
          fail_at \in 0..MaxFail :
          ApplySuggestions(u, sid, decisions, fail_at)
    \/ \E u \in UserIds, id \in IdsOf(store.tasks), updates \in UpdateMaps :
          UpdateTask(u, id, updates)
    \/ \E u \in UserIds, id \in IdsOf(store.suggestions), accepted \in BOOLEAN :
          UpdateSuggestionAccepted(u, id, BoolStr(accepted))

SpecTriage == Init /\ [][NextTriage]_vars

\* ===================================================================
\* Properties of the pipeline under SpecTriage
\* ===================================================================

NodeLabels == {"tasks", "projects", "areas", "sessions", "suggestions"}

\* Ids of the nodes a user holds an OWNS edge to.
OwnedIds(st, A) ==
    {e[3] : e \in {x \in BagToSet(st.edges) : x[1] = "OWNS" /\ x[2] = A}}

\* The nodes of a user, label by label, with all their fields.
NodesOf(st, A) == [f \in NodeLabels |-> {n \in st[f] : n.id \in OwnedIds(st, A)}]

\* An edge that starts at the user or starts or ends at one of the ids.
Touches(e, A, ids) ==
    IF e[1] = "OWNS" THEN e[2] = A \/ e[3] \in ids
    ELSE e[2] \in ids \/ e[3] \in ids

\* A step leaves everything of user A as it was: nodes, fields and edges.
Untouched(A) ==
    /\ NodesOf(store', A) = NodesOf(store, A)
    /\ \A e \in BagToSet(store.edges) \cup BagToSet(store'.edges) :
          Touches(e, A, OwnedIds(store, A) \cup OwnedIds(store', A))
              => CopiesIn(e, store'.edges) = CopiesIn(e, store.edges)

MutatingOps == {"update_task", "update_suggestion_accepted", "apply_suggestions"}

\* C4: a call of update_task, update_suggestion_accepted or apply_suggestions
\* by owner B leaves the nodes, fields and edges of every other owner A as
\* they were; an update naming a node of A returns False; and an
\* apply_suggestions whose decisions name no suggestion of B changes nothing
\* at all (no acceptance changes, no Task and no edge is created).
C4_ForeignUntouched ==
    [][last'.op \in MutatingOps =>
          /\ \A A \in UserIds \ {last'.user} :
                /\ Untouched(A)
                /\ (/\ last'.op \in {"update_task", "update_suggestion_accepted"}
                    /\ last'.ret.kind = "some"
                    /\ last'.arg[1] \in OwnedIds(store, A))
                      => last'.ret = Some(FALSE)
          /\ (/\ last'.op = "apply_suggestions"
              /\ \A i \in DOMAIN last'.arg :
                    last'.arg[i] \notin OwnedIds(store, last'.user))
                => store' = store]_vars

\* u1 holds a task and a suggestion it has accepted; u2, a user of its own,
\* has just applied a decision that names u1's suggestion.
C4_Witness ==
    /\ last.op = "apply_suggestions"
    /\ last.user = "u2"
    /\ "u2" \in store.users
    /\ Len(last.arg) >= 1
    /\ last.arg[1] \in OwnedIds(store, "u1")
    /\ \E s \in store.suggestions : s.id = last.arg[1] /\ s.accepted_bool = "True"
    /\ \E t \in store.tasks : t.id \in OwnedIds(store, "u1")

\* C9 (as claimed): the session_id run_triage returns names a TriageSession
\* that is in the store, is owned by the caller and holds the brain dump,
\* whether error is null or not.
C9_SessionStored ==
    last.op = "run_triage" =>
        /\ last.ret.kind = "some"
        /\ \E ts \in store.sessions :
              /\ ts.id = last.ret.val.session_id
              /\ OwnersOf(ts.id) = {last.user}
              /\ ts.input_text = last.text

\* C10 (as claimed): when the LLM client raises, run_triage returns a result
\* with no suggestions and an error, no Suggestion hangs on the session, and
\* the session of the run is in the store, owned by the caller.
C10_LLMFailureKeepsSession ==
    (last.op = "run_triage" /\ last.ret.kind = "some" /\ last.ret.val.error = "llm") =>
        /\ last.ret.val.suggestions = <<>>
        /\ last.ret.val.error # PyNone
        /\ \A s \in store.suggestions :
              EdgeCount(store, "PRODUCED", last.ret.val.session_id, s.id) = 0
        /\ \E ts \in store.sessions :
              ts.id = last.ret.val.session_id /\ OwnersOf(ts.id) = {last.user}

\* What does hold: for a caller with a User node and a store that takes the
\* session, the result names the stored session of the caller.
SessionStoredForUser ==
    (/\ last.op = "run_triage"
     /\ last.user \in store.users
     /\ last.ret.val.error # "store") =>
        \E ts \in store.sessions :
            /\ ts.id = last.ret.val.session_id
            /\ OwnersOf(ts.id) = {last.user}
            /\ ts.input_text = last.text

\* What does hold: for a caller with a User node an LLM failure leaves the
\* session of the run stored, without suggestions, and is reported in error.
LLMFailureKeepsSessionForUser ==
    (/\ last.op = "run_triage"
     /\ last.user \in store.users
     /\ last.ret.val.error \in {"llm", "ValueError"}) =>
        /\ last.ret.val.suggestions = <<>>
        /\ \A s \in store.suggestions :
              EdgeCount(store, "PRODUCED", last.ret.val.session_id, s.id) = 0
        /\ \E ts \in store.sessions :
              ts.id = last.ret.val.session_id /\ OwnersOf(ts.id) = {last.user}

\* The cleaned items the client hands to the run recorded in last.
ItemsOfRun == triage_brain_dump(last.text, EmptyContext, last.llm).ret.val.items

\* The keys of a payload that come from the item.
ItemKeys ==
    {"raw_text", "action_title", "description", "status", "priority", "urgency",
     "effort", "para_bucket", "project_suggestions", "area_suggestions",
     "needs_clarification", "clarifying_questions", "next_action"}

\* The i-th suggestion returned is made from the i-th item, is in the store,
\* is owned by the caller and hangs on the session of the run.
SuggestionOfItem(i) ==
    LET result == last.ret.val
        sug == result.suggestions[i]
    IN  /\ \A k \in ItemKeys : sug.payload_json[k] = ItemsOfRun[i][k]
        /\ \E s \in store.suggestions :
              s.id = sug.id /\ s.payload_json = sug.payload_json
        /\ OwnersOf(sug.id) = {last.user}
        /\ EdgeCount(store, "PRODUCED", result.session_id, sug.id) = 1

\* C11 (as claimed): when run_triage returns error = null, it returns as many
\* suggestions as the LLM answered validated items, in the items' order, and
\* each is stored as a Suggestion that the caller owns and that the session
\* of the run PRODUCED.
C11_SuggestionPerItem ==
    (last.op = "run_triage" /\ last.ret.val.error = PyNone) =>
        /\ Len(last.ret.val.suggestions) = Len(ItemsOfRun)
        /\ \A i \in DOMAIN last.ret.val.suggestions : SuggestionOfItem(i)

\* What does hold: the same for a caller with a User node.
SuggestionPerItemForUser ==
    (/\ last.op = "run_triage"
     /\ last.user \in store.users
     /\ last.ret.val.error = PyNone) =>
        /\ Len(last.ret.val.suggestions) = Len(ItemsOfRun)
        /\ \A i \in DOMAIN last.ret.val.suggestions : SuggestionOfItem(i)

\* A run of a caller with a User node that returned a suggestion.
SuggestionPerItemReached ==
    /\ last.op = "run_triage"
    /\ last.user \in store.users
    /\ last.ret.val.error = PyNone
    /\ Len(last.ret.val.suggestions) = MaxItems

\* C12 (as claimed): every Suggestion run_triage has stored has its acceptance
\* unset, neither accepted nor rejected, when run_triage returns.
C12_AcceptanceUnset ==
    last.op = "run_triage" =>
        \A i \in DOMAIN last.ret.val.suggestions :
            \A s \in store.suggestions :
                s.id = last.ret.val.suggestions[i].id => s.accepted_bool = PyNone

\* What does hold: run_triage stores every Suggestion as rejected.
StoredAsRejected ==
    last.op = "run_triage" =>
        \A i \in DOMAIN last.ret.val.suggestions :
            \A s \in store.suggestions :
                s.id = last.ret.val.suggestions[i].id =>
                    s.accepted_bool = BoolStr(FALSE)

\* C13 (as claimed): run_triage on an empty or whitespace-only brain dump
\* fails with an error of its own, and the store holds no TriageSession of
\* that run.
C13_EmptyInputRejected ==
    (last.op = "run_triage" /\ is_empty(last.text)) =>
        /\ last.ret.kind = "raise"
        /\ \A ts \in store.sessions : ts.id # last.arg[1]

\* What does hold: on an empty brain dump run_triage returns a result without
\* suggestions whose error is set, and for a caller with a User node and a
\* store that is up the session of the run is stored.
EmptyInputReported ==
    (last.op = "run_triage" /\ is_empty(last.text)) =>
        /\ last.ret.kind = "some"
        /\ last.ret.val.suggestions = <<>>
        /\ last.ret.val.error \in {"ValueError", "store"}
        /\ (last.user \in store.users /\ last.ret.val.error = "ValueError") =>
              \E ts \in store.sessions :
                  ts.id = last.arg[1] /\ ts.input_text = last.text

\* ===================================================================
\* Specification SpecLLM: triage_brain_dump is called on brain dumps with
\* answers of the client of every kind, and _validate_triage_response on
\* data of every kind.
\* ===================================================================

\* A text of n characters, no two neighbours alike.
Alphabet == <<"a", "b", "c", "d", "e", "f", "g">>
TextOf(n) == [i \in 1..n |-> Alphabet[(i % 7) + 1]]

\* A list of n entries, all different.
ListOf(n) == [i \in 1..n |-> <<"q", i>>]

\* An item that carries the required fields only, all valid.
PlainItem ==
    [json |-> "object", action_title |-> <<"p", "a", "y">>, description |-> <<"d">>,
     status |-> "NEXT", priority |-> Number(4), urgency |-> Number(5), effort |-> "S"]

\* PlainItem without the key given.
Without(item, key) == [k \in (DOMAIN item) \ {key} |-> item[k]]

\* PlainItem with the key given added.
With(item, key, value) ==
    [k \in (DOMAIN item) \cup {key} |-> IF k = key THEN value ELSE item[k]]

\* Items the validator turns down: not an object, a required field missing,
\* a status or an effort outside the closed sets, a priority that int()
\* cannot convert.
InvalidItems ==
    {[json |-> "string"]}
        \cup {Without(PlainItem, field) : field \in RequiredFields}
        \cup {[PlainItem EXCEPT !.status = "URGENT"], [PlainItem EXCEPT !.effort = "XXL"],
              [PlainItem EXCEPT !.status = "next"], [PlainItem EXCEPT !.effort = ""],
              [PlainItem EXCEPT !.priority = Word], [PlainItem EXCEPT !.urgency = Null]}

\* Numbers an item can carry as priority or urgency.
NumberValues == {0 - 7, 0 - 1, 0, 1, 2, 5, 6, 40}

\* Items the validator takes: priorities and urgencies in and out of range,
\* texts below, at and above their caps, lists below, at and above theirs.
ValidItems ==
    LLMItems
        \cup {[PlainItem EXCEPT !.priority = Number(v)] : v \in NumberValues}
        \cup {[PlainItem EXCEPT !.urgency = Number(v)] : v \in NumberValues}
        \cup {[PlainItem EXCEPT !.action_title = TextOf(n)] :
                  n \in {0, TitleCap - 1, TitleCap, TitleCap + 1, 2 * TitleCap}}
        \cup {[PlainItem EXCEPT !.description = TextOf(n)] :
                  n \in {DescriptionCap, DescriptionCap + 1}}
        \cup {With(PlainItem, "next_action", TextOf(n)) :
                  n \in {NextActionCap, NextActionCap + 1}}
        \cup {With(PlainItem, key, ListOf(n)) :
                  key \in {"project_suggestions", "area_suggestions",
                           "clarifying_questions", "duplicate_candidates"},
                  n \in {ListCap, ListCap + 1}}
        \cup {[PlainItem EXCEPT !.priority = Number(0 - 7), !.urgency = Number(40)],
              [PlainItem EXCEPT !.action_title = TextOf(TitleCap + 1),
                                !.description = TextOf(DescriptionCap + 1)]}

\* Items that fill the other places of a list: the two of LLMItems and one
\* on which int() fails.
CoreItems == LLMItems \cup {[PlainItem EXCEPT !.urgency = Null]}

\* Lists of up to MaxResponseItems items: core items with any item of S in
\* any one place.
ListsAround(S) ==
    {<<>>} \cup
    UNION {UNION {{[core EXCEPT ![place] = x] :
                      core \in [1..k -> CoreItems], x \in S} : place \in 1..k} :
              k \in 1..MaxResponseItems}

ItemLists(S) == UNION {[1..k -> S] : k \in 0..MaxResponseItems}

\* What json.loads can give: a value that is no object, an object without
\* "items" or with "items" that is no array, an object with items.
ValidatorData ==
    {[json |-> "array"], [json |-> "object"],
     [json |-> "object", items |-> [json |-> "null", val |-> <<>>]]}
        \cup {Data(items) : items \in ListsAround(ValidItems \cup InvalidItems)}

\* Items of the answers triage_brain_dump is tried on.
AnswerItems ==
    LLMItems \cup
    {[PlainItem EXCEPT !.priority = Number(9)],
     [PlainItem EXCEPT !.status = "URGENT"],
     Without(PlainItem, "effort"),
     [PlainItem EXCEPT !.priority = Null]}

\* Answers of the client to one request.
Answers ==
    {ClientError, Unparsable, Parsed([json |-> "array"]), Parsed([json |-> "object"])}
        \cup {Parsed(Data(items)) : items \in ItemLists(AnswerItems)}

LLMTexts == {<<"d">>, <<" ", "d", "\n">>, <<>>, <<" ">>, <<"\n", "\t">>}

\* Calls about to be made: the arguments stand in last, the call is pending.
PendingValidate(data) ==
    [Call("call _validate_triage_response", "", <<>>, None)
        EXCEPT !.llm = <<Parsed(data)>>]

PendingTriage(text, responses) ==
    [Call("call triage_brain_dump", "", <<>>, None)
        EXCEPT !.text = text, !.llm = responses]

\* No answer is drawn for a call that asks nothing.
PendingCalls ==
    {PendingValidate(data) : data \in ValidatorData}
        \cup {PendingTriage(text, responses) :
                  text \in {t \in LLMTexts : ~is_empty(t)},
                  responses \in [1..Attempts -> Answers]}
        \cup {PendingTriage(text, [k \in 1..Attempts |-> ClientError]) :
                  text \in {t \in LLMTexts : is_empty(t)}}

InitLLM ==
    /\ store = EmptyStore
    /\ clock = 0
    /\ last \in PendingCalls
    /\ procs = NoProcs

\* The pending call of _validate_triage_response is made; last.ret holds
\* what it returns or raises.
ValidateTriageResponse ==
    /\ last.op = "call _validate_triage_response"
    /\ last' = [last EXCEPT !.op = "_validate_triage_response",
                            !.ret = validate_triage_response(last.llm[1].data)]
    /\ UNCHANGED <<store, clock, procs>>

\* The pending call of triage_brain_dump is made; last.ret holds what it
\* returns or raises and the requests it made.
TriageBrainDump ==
    /\ last.op = "call triage_brain_dump"
    /\ last' = [last EXCEPT !.op = "triage_brain_dump",
                            !.ret = triage_brain_dump(last.text, EmptyContext, last.llm)]
    /\ UNCHANGED <<store, clock, procs>>

NextLLM ==
    \/ ValidateTriageResponse
    \/ TriageBrainDump

SpecLLM == InitLLM /\ [][NextLLM]_vars

\* ===================================================================
\* Properties of the LLM client and of the validator under SpecLLM
\* ===================================================================

\* A text without a character that is not whitespace.
OnlyWhitespace(text) == \A i \in DOMAIN text : text[i] \in Whitespace

\* C14: triage_brain_dump on an empty or whitespace-only text raises an
\* error and has sent no request to the LLM.
C14_EmptyTextAsksNothing ==
    (last.op = "triage_brain_dump" /\ OnlyWhitespace(last.text)) =>
        /\ last.ret.ret.kind = "raise"
        /\ Len(last.ret.requests) = 0

\* A whitespace-only text was turned down without a request.
C14_WhitespaceRejected ==
    /\ last.op = "triage_brain_dump"
    /\ last.text = <<"\n", "\t">>
    /\ last.ret.ret = Raised("ValueError")
    /\ last.ret.requests = <<>>

\* The answer parses and passes the validator.
Validates(response) ==
    /\ response.http = "ok"
    /\ response.json = "parsed"
    /\ validate_triage_response(response.data).kind = "some"

\* The client got an answer, and it does not parse or the validator raises on it.
FailsParsingOrValidation(response) ==
    response.http = "ok" /\ ~Validates(response)

\* The same, where what is raised is a JSONDecodeError or a ValueError.
FailsWithValueError(response) ==
    /\ response.http = "ok"
    /\ \/ response.json = "unparsable"
       \/ validate_triage_response(response.data) = Raised("ValueError")

\* What a call with these two answers comes to when the first answer failed
\* and the request was sent again.
RetriedOnce(result, first, second) ==
    /\ Len(result.requests) = 2
    /\ result.requests[1] = result.requests[2]
    /\ Validates(second) => result.ret = validate_triage_response(second.data)
    /\ FailsParsingOrValidation(second) => result.ret.kind = "raise"

\* C15 (as claimed): a call of triage_brain_dump on a text that is not empty
\* sends one request when the first answer parses and validates, and returns
\* its validated items; it sends the same request twice when the first answer
\* fails parsing or validation, then returns the validated items of the
\* second answer or raises when that fails too; it never sends a third.
C15_OneRetry ==
    (last.op = "triage_brain_dump" /\ ~OnlyWhitespace(last.text)) =>
        /\ Len(last.ret.requests) <= 2
        /\ Validates(last.llm[1]) =>
              /\ Len(last.ret.requests) = 1
              /\ last.ret.ret = validate_triage_response(last.llm[1].data)
        /\ FailsParsingOrValidation(last.llm[1]) =>
              RetriedOnce(last.ret, last.llm[1], last.llm[2])

\* What does hold: the same where the first answer fails with a
\* JSONDecodeError or a ValueError; an answer on which the validator raises
\* another exception ends the call with that exception after one request.
OneRetryOnValueError ==
    (last.op = "triage_brain_dump" /\ ~OnlyWhitespace(last.text)) =>
        /\ Len(last.ret.requests) \in 1..2
        /\ Validates(last.llm[1]) =>
              /\ Len(last.ret.requests) = 1
              /\ last.ret.ret = validate_triage_response(last.llm[1].data)
        /\ FailsWithValueError(last.llm[1]) =>
              /\ RetriedOnce(last.ret, last.llm[1], last.llm[2])
              /\ FailsWithValueError(last.llm[2]) => last.ret.ret = Raised("ValueError")
        /\ (FailsParsingOrValidation(last.llm[1]) /\ ~FailsWithValueError(last.llm[1])) =>
              /\ Len(last.ret.requests) = 1
              /\ last.ret.ret = Raised("TypeError")

\* The first answer failed with a ValueError and the second was returned.
OneRetryReached ==
    /\ last.op = "triage_brain_dump"
    /\ FailsWithValueError(last.llm[1])
    /\ Validates(last.llm[2])
    /\ Len(last.ret.requests) = 2
    /\ last.ret.ret.kind = "some"

\* The answer carries a list of items.
HasItems(response) ==
    /\ response.http = "ok"
    /\ response.json = "parsed"
    /\ response.data.json = "object"
    /\ "items" \in DOMAIN response.data
    /\ response.data.items.json = "array"

\* ret holds the cleaned form of every item of the answer, in order.
CompleteListOf(ret, response) ==
    /\ HasItems(response)
    /\ Len(ret.val.items) = Len(response.data.items.val)
    /\ \A i \in DOMAIN ret.val.items :
          validate_item(response.data.items.val[i]) = Some(ret.val.items[i])

\* The answer carries an item the validator turns down.
HasInvalidItem(response) ==
    /\ HasItems(response)
    /\ \E i \in DOMAIN response.data.items.val :
          validate_item(response.data.items.val[i]).kind = "raise"

\* C16: the validator and triage_brain_dump give either an error or the
\* complete cleaned list of one single answer; of an answer with an invalid
\* item no item is returned.
C16_AllOrNothing ==
    /\ last.op = "_validate_triage_response" =>
          /\ last.ret.kind \in {"some", "raise"}
          /\ last.ret.kind = "some" => CompleteListOf(last.ret, last.llm[1])
          /\ HasInvalidItem(last.llm[1]) => last.ret.kind = "raise"
    /\ last.op = "triage_brain_dump" =>
          /\ last.ret.ret.kind \in {"some", "raise"}
          /\ last.ret.ret.kind = "some" =>
                \E k \in 1..Len(last.ret.requests) :
                    /\ CompleteListOf(last.ret.ret, last.llm[k])
                    /\ ~HasInvalidItem(last.llm[k])

\* The first answer had a valid item followed by an invalid one; the items
\* returned are the two of the second answer.
C16_InvalidAnswerDropped ==
    /\ last.op = "triage_brain_dump"
    /\ HasInvalidItem(last.llm[1])
    /\ Len(last.llm[1].data.items.val) = 2
    /\ validate_item(last.llm[1].data.items.val[1]).kind = "some"
    /\ last.ret.ret.kind = "some"
    /\ Len(last.ret.ret.val.items) = 2
    /\ last.llm[2] # last.llm[1]

\* The items given to the validator in the call recorded in last.
ItemsGiven == last.llm[1].data.items.val

\* The validator returned cleaned items.
Cleaned == last.op = "_validate_triage_response" /\ last.ret.kind = "some"

\* An item that has the required fields, a status and an effort of the
\* closed sets, and numbers as priority and urgency.
WellFormed(item) ==
    /\ item.json = "object"
    /\ RequiredFields \subseteq DOMAIN item
    /\ item.status \in VALID_STATUSES
    /\ item.effort \in VALID_EFFORTS
    /\ item.priority.json = "number"
    /\ item.urgency.json = "number"

\* v brought into 1..5.
Into1To5(v) == IF v < 1 THEN 1 ELSE IF v > 5 THEN 5 ELSE v

\* C17: an item with integer priority and urgency is never turned down for
\* their values, and its cleaned priority and urgency are the values brought
\* into 1..5: 1 below 1, 5 above 5, unchanged inside.
C17_Clamped ==
    /\ (/\ last.op = "_validate_triage_response"
        /\ HasItems(last.llm[1])
        /\ \A i \in DOMAIN ItemsGiven : WellFormed(ItemsGiven[i])) => last.ret.kind = "some"
    /\ Cleaned =>
          \A i \in DOMAIN ItemsGiven :
              /\ last.ret.val.items[i].priority = Into1To5(ItemsGiven[i].priority.val)
              /\ last.ret.val.items[i].urgency = Into1To5(ItemsGiven[i].urgency.val)

\* A priority below the range and an urgency above it were clamped, next to
\* an item whose numbers were kept.
C17_OutOfRangeClamped ==
    /\ Cleaned
    /\ Len(ItemsGiven) = 2
    /\ ItemsGiven[1].priority.val = 4
    /\ last.ret.val.items[1].priority = 4
    /\ ItemsGiven[2].priority.val < 1
    /\ ItemsGiven[2].urgency.val > 5
    /\ last.ret.val.items[2].priority = 1
    /\ last.ret.val.items[2].urgency = 5

\* An item that lacks a required field, or whose status or effort is not of
\* the closed sets.
Defective(item) ==
    /\ item.json = "object"
    /\ \/ \E field \in {"action_title", "description", "status",
                          "priority", "urgency", "effort"} : field \notin DOMAIN item
       \/ "status" \in DOMAIN item /\
            item.status \notin {"INBOX", "NEXT", "IN_PROGRESS", "WAITING",
                                "SOMEDAY", "DONE", "ARCHIVED"}
       \/ "effort" \in DOMAIN item /\ item.effort \notin {"XS", "S", "M", "L", "XL"}

\* An item whose priority or urgency int() cannot take.
Unconvertible(item) ==
    /\ item.json = "object"
    /\ \/ "priority" \in DOMAIN item /\ item.priority.json # "number"
       \/ "urgency" \in DOMAIN item /\ item.urgency.json # "number"

\* C18: the validator raises on every answer with an item that lacks a
\* required field or has a status or an effort outside the closed sets; it
\* returns nothing made of such an item, and what it raises is a ValueError
\* unless int() failed on an item before.
C18_DefectiveRejected ==
    (/\ last.op = "_validate_triage_response"
     /\ HasItems(last.llm[1])
     /\ \E i \in DOMAIN ItemsGiven : Defective(ItemsGiven[i])) =>
        /\ last.ret.kind = "raise"
        /\ (\A i \in DOMAIN ItemsGiven : ~Unconvertible(ItemsGiven[i])) =>
              last.ret = Raised("ValueError")

\* An answer whose second item has an effort outside the set was turned down.
C18_BadEffortRejected ==
    /\ last.op = "_validate_triage_response"
    /\ HasItems(last.llm[1])
    /\ Len(ItemsGiven) = 2
    /\ WellFormed(ItemsGiven[1])
    /\ ItemsGiven[2] = [PlainItem EXCEPT !.effort = "XXL"]
    /\ last.ret = Raised("ValueError")

\* The text itself up to cap characters, its first cap characters beyond.
FirstOf(text, cap) ==
    IF Len(text) > cap THEN [j \in 1..cap |-> text[j]] ELSE text

\* C19: in every cleaned item action_title, description and next_action are
\* the item's texts when these have at most 200, 2000 and 500 characters,
\* and exactly their first 200, 2000 and 500 characters when they are longer.
C19_Truncated ==
    Cleaned =>
        \A i \in DOMAIN ItemsGiven :
            /\ last.ret.val.items[i].action_title =
                    FirstOf(ItemsGiven[i].action_title, 200)
            /\ last.ret.val.items[i].description =
                    FirstOf(ItemsGiven[i].description, 2000)
            /\ "next_action" \in DOMAIN ItemsGiven[i] =>
                    last.ret.val.items[i].next_action =
                        FirstOf(ItemsGiven[i].next_action, 500)

\* A title of 201 characters and a description of 2001 were cut to 200 and 2000.
C19_LongTextsCut ==
    /\ Cleaned
    /\ Len(ItemsGiven) = 2
    /\ Len(ItemsGiven[2].action_title) = 201
    /\ Len(last.ret.val.items[2].action_title) = 200
    /\ Len(ItemsGiven[2].description) = 2001
    /\ Len(last.ret.val.items[2].description) = 2000
    /\ last.ret.val.items[1].action_title = ItemsGiven[1].action_title

\* C20 (as claimed): in every cleaned item each of project_suggestions,
\* area_suggestions, clarifying_questions and duplicate_candidates has at
\* most 10 entries.
C20_ListsCapped ==
    Cleaned =>
        \A i \in DOMAIN ItemsGiven :
            \A key \in {"project_suggestions", "area_suggestions",
                         "clarifying_questions", "duplicate_candidates"} :
                Len(last.ret.val.items[i][key]) <= 10

\* What does hold: project_suggestions and area_suggestions are cut to their
\* first 10 entries; clarifying_questions and duplicate_candidates are kept
\* as the item gave them, however long.
TwoListsCapped ==
    Cleaned =>
        \A i \in DOMAIN ItemsGiven :
            /\ \A key \in {"project_suggestions", "area_suggestions"} :
                  last.ret.val.items[i][key] = FirstOf(Get(ItemsGiven[i], key, <<>>), 10)
            /\ \A key \in {"clarifying_questions", "duplicate_candidates"} :
                  last.ret.val.items[i][key] = Get(ItemsGiven[i], key, <<>>)

\* The client raised on the k-th request of the latest call.
ClientRaised(k) == k <= Len(last.llm) /\ last.llm[k].http = "error"

\* C39: a failure of the request itself, neither a parse failure nor a
\* failure of the validator, is not retried: triage_brain_dump raises it
\* after exactly one request when it meets the first request, and no request
\* follows one that failed so; and every call returns the validated items
\* of the answer to its last request or raises.
C39_RequestFailureNotRetried ==
    (last.op = "triage_brain_dump") =>
        /\ last.ret.ret.kind \in {"some", "raise"}
        /\ last.ret.ret.kind = "some" =>
              /\ last.ret.requests # <<>>
              /\ Validates(last.llm[Len(last.ret.requests)])
              /\ last.ret.ret =
                    validate_triage_response(last.llm[Len(last.ret.requests)].data)
        /\ (~OnlyWhitespace(last.text) /\ ClientRaised(1)) =>
              /\ Len(last.ret.requests) = 1
              /\ last.ret.ret = Raised("llm")
        /\ \A k \in DOMAIN last.ret.requests :
              ClientRaised(k) =>
                  /\ Len(last.ret.requests) = k
                  /\ last.ret.ret = Raised("llm")

\* The first request failed in the client although the second would have
\* been answered with items that validate: one request, the error raised.
C39_FailedOnceAndRaised ==
    /\ last.op = "triage_brain_dump"
    /\ ~OnlyWhitespace(last.text)
    /\ ClientRaised(1)
    /\ Validates(last.llm[2])
    /\ Len(last.ret.requests) = 1
    /\ last.ret.ret = Raised("llm")

\* ===================================================================
\* Specification SpecReview: two users run triage and accept a suggestion
\* each; then a user applies a list of decisions to a session, and applies
\* the same list or the opposite decisions after it, while a call to the
\* store or to the embedding service may raise; or a user runs triage on
\* the store that holds tasks of both.
\* ===================================================================

\* An item whose project suggestion is an object, as the prompt asks for.
ObjectItem ==
    [json |-> "object",
     raw_text |-> <<"o">>, action_title |-> <<"c", "a", "l", "l">>,
     description |-> <<"d">>,
     status |-> "WAITING", priority |-> Number(2), urgency |-> Number(1),
     effort |-> "XL",
     para_bucket |-> "PROJECT", project_suggestions |-> <<Obj(<<"H", "i">>)>>,
     area_suggestions |-> <<>>, needs_clarification |-> FALSE,
     clarifying_questions |-> <<>>, duplicate_candidates |-> <<>>,
     next_action |-> <<>>]

\* The items of LLMItems: with a project name, and without names.
NamedItem == CHOOSE item \in LLMItems : item.project_suggestions # <<>>
BareItem == CHOOSE item \in LLMItems : item.project_suggestions = <<>>

\* An environment in which nothing fails and the client answers with items.
Answering(items) ==
    [store_up |-> TRUE, context_up |-> TRUE,
     llm |-> [k \in 1..Attempts |-> Parsed(Data(items))], fail_at |-> 0]

\* accept / reject of a suggestion without an edit.
Accept(id) == [id |-> id, action |-> "accept", edited_data |-> NoEdit]
Reject(id) == [id |-> id, action |-> "reject", edited_data |-> NoEdit]

\* What happened before the review.  u1 ran triage twice: session 1 with
\* suggestions 2 (a project name), 3 (no name) and 4 (a project object),
\* session 5 with suggestion 6.  u2 ran triage once: session 7 with
\* suggestion 8, then accepted it as task 9 in project 10, and u1 accepted
\* suggestion 6 as task 11.
ReviewScript ==
    <<[op |-> "run_triage", user |-> "u1", items |-> <<NamedItem, BareItem, ObjectItem>>],
      [op |-> "run_triage", user |-> "u1", items |-> <<BareItem>>],
      [op |-> "run_triage", user |-> "u2", items |-> <<NamedItem>>],
      [op |-> "apply_suggestions", user |-> "u2", session |-> 7,
       decisions |-> <<Accept(8)>>],
      [op |-> "apply_suggestions", user |-> "u1", session |-> 5,
       decisions |-> <<Accept(6)>>]>>

\* An id no node carries (uuid4 never drew it).
Unissued == 0

\* What the review form can send as edited_data of an accepted suggestion:
\* nothing; a title, a status and a project; an empty description and a
\* zero priority; values outside the domains; two area names that differ in
\* case only.
ReviewEdits ==
    {NoEdit,
     [json |-> "object", action_title |-> <<"c", "a", "l", "l">>, status |-> "DONE",
      project_suggestions |-> <<Str(<<"h", "I">>)>>],
     [json |-> "object", description |-> <<>>, priority |-> 0],
     [json |-> "object", priority |-> 9, status |-> "URGENT", effort |-> "XXL"],
     [json |-> "object", area_suggestions |-> <<Str(<<"G", "o">>), Str(<<"g", "O">>)>>]}

\* The suggestions of session 1 of u1, and ids from elsewhere: a suggestion
\* of another session of u1, a suggestion of u2, an id of no node.
SessionIds == {2, 3, 4}
ForeignIds == {6, 8, Unissued}

ReviewDecisions ==
    [id : SessionIds, action : {"accept"}, edited_data : ReviewEdits]
        \cup {Accept(id) : id \in ForeignIds}
        \cup {Reject(id) : id \in SessionIds \cup ForeignIds}
        \cup {[id |-> 2, action |-> "", edited_data |-> NoEdit],
              [id |-> NoId, action |-> "accept", edited_data |-> NoEdit]}

CoreDecisions == {Accept(2), Reject(3)}

\* Lists of up to MaxReviewDecisions decisions: core decisions at every place
\* but one, which takes any decision.
ReviewLists ==
    UNION {UNION {{[l EXCEPT ![place] = d] : d \in ReviewDecisions,
                                            l \in [1..k -> CoreDecisions]} :
                      place \in 1..k} :
               k \in 1..MaxReviewDecisions} \cup {<<>>}

\* Who reviews what: u1 session 1 with every list; u1 session 5 and u2
\* session 7 with the lists of one decision.
Reviews ==
    {<<"u1", 1, l>> : l \in ReviewLists}
        \cup {<<u, sid, l>> : u \in UserIds, sid \in {5, 7},
                              l \in {m \in ReviewLists : Len(m) = 1}}

PendingApply(user_id, session_id, decisions, fail_at) ==
    [Call("call apply_suggestions", user_id, <<session_id>>, None)
         EXCEPT !.decisions = decisions, !.fail_at = fail_at]

PendingReviews ==
    {PendingApply(r[1], r[2], r[3], fail_at) :
         r \in Reviews, fail_at \in 0..MaxReviewFail}

\* A user sends a brain dump that the client answers with one or two items.
PendingRunTriage(user_id, items) ==
    [Call("call run_triage", user_id, <<>>, None)
         EXCEPT !.text = <<"d">>, !.llm = Answering(items).llm]

PendingTriages ==
    {PendingRunTriage(u, items) :
         u \in UserIds,
         items \in UNION {[1..k -> {NamedItem, BareItem, ObjectItem}] : k \in 1..2}}

\* The opposite decisions on the same suggestions, without edits.
Opposite(decisions) ==
    [i \in DOMAIN decisions |->
        IF decisions[i].action = "accept" THEN Reject(decisions[i].id)
        ELSE IF decisions[i].action = "reject" THEN Accept(decisions[i].id)
        ELSE decisions[i]]

\* Both users have signed up.
InitReview ==
    /\ store = create_user(create_user(EmptyStore, "u1").st, "u2").st
    /\ clock = 0
    /\ last = Call("prepare", "", <<0>>, None)
    /\ procs = NoProcs

\* The next call of ReviewScript is made, nothing failing.
Prepare ==
    LET step == ReviewScript[last.arg[1] + 1]
        r == IF step.op = "run_triage"
             THEN run_triage(store, step.user, <<"d">>, clock, Answering(step.items))
             ELSE apply_suggestions(store, step.user, step.session, step.decisions,
                                    clock, 0)
    IN  /\ last.op = "prepare"
        /\ last.arg[1] < Len(ReviewScript)
        /\ store' = r.st
        /\ clock' = r.clk
        /\ last' = Call("prepare", step.user, <<last.arg[1] + 1>>, r.ret)
        /\ UNCHANGED procs

\* A user sends a list of decisions on a session.
Review ==
    /\ last.op = "prepare"
    /\ last.arg[1] = Len(ReviewScript)
    /\ last' \in PendingReviews \cup PendingTriages
    /\ UNCHANGED <<store, clock, procs>>

\* apply_suggestions is called with a list of decisions and yields r;
\* last records the call, the n-th in a row, and the store it started from.
\* A call that is to raise is one the run makes.
Applying(r, decisions, fail_at, n) ==
    /\ fail_at > 0 => r.ret.kind = "raise"
    /\ r.clk <= MaxReviewClock
    /\ store' = r.st
    /\ clock' = r.clk
    /\ last' = [last EXCEPT !.op = "apply_suggestions", !.decisions = decisions,
                            !.fail_at = fail_at, !.before = store, !.ret = r.ret,
                            !.n = n]
    /\ UNCHANGED procs

\* The pending call of apply_suggestions is made.
ApplyPending ==
    /\ last.op = "call apply_suggestions"
    /\ Applying(apply_suggestions(store, last.user, last.arg[1], last.decisions,
                                  clock, last.fail_at),
                last.decisions, last.fail_at, 1)

\* The same list is applied to the same session once more.
ApplyAgain ==
    /\ last.op = "apply_suggestions"
    /\ last.n < MaxRepeat
    /\ Applying(apply_suggestions(store, last.user, last.arg[1], last.decisions,
                                  clock, 0),
                last.decisions, 0, last.n + 1)

\* The opposite decisions are applied to the same session.
ApplyOpposite ==
    /\ last.op = "apply_suggestions"
    /\ Opposite(last.decisions) # last.decisions
    /\ Applying(apply_suggestions(store, last.user, last.arg[1],
                                  Opposite(last.decisions), clock, 0),
                Opposite(last.decisions), 0, 1)

\* The pending call of run_triage is made, nothing failing.
RunPending ==
    /\ last.op = "call run_triage"
    /\ store' = run_triage(store, last.user, last.text, clock,
                           [Answering(<<>>) EXCEPT !.llm = last.llm]).st
    /\ clock' = run_triage(store, last.user, last.text, clock,
                           [Answering(<<>>) EXCEPT !.llm = last.llm]).clk
    /\ last' = [last EXCEPT !.op = "run_triage", !.arg = <<clock + 1>>,
                            !.before = store,
                            !.ret = run_triage(store, last.user, last.text, clock,
                                               [Answering(<<>>) EXCEPT !.llm = last.llm]).ret]
    /\ UNCHANGED procs

NextReview ==
    \/ Prepare
    \/ Review
    \/ ApplyPending
    \/ ApplyAgain
    \/ ApplyOpposite
    \/ RunPending

SpecReview == InitReview /\ [][NextReview]_vars

\* ===================================================================
\* Properties of apply_suggestions under SpecReview
\* ===================================================================

\* The latest call of apply_suggestions, and the one that returned.
Reviewed == last.op = "apply_suggestions"
ReviewedFine == Reviewed /\ last.ret = None

\* The suggestions of the session of the latest call, as it found them.
SessionSuggestions ==
    Range(get_suggestions_for_session(last.before, last.user, last.arg[1]))

\* The places of a list whose decision the loop does not drop: it has an id
\* and an action.
Places(decisions) ==
    {i \in DOMAIN decisions : decisions[i].id # NoId /\ decisions[i].action # ""}
Naming(decisions, id) == {i \in Places(decisions) : decisions[i].id = id}
Accepting(decisions, id) ==
    {i \in Naming(decisions, id) : decisions[i].action = "accept"}
Rejecting(decisions, id) ==
    {i \in Naming(decisions, id) : decisions[i].action # "accept"}
LastNaming(decisions, id) ==
    CHOOSE i \in Naming(decisions, id) : \A j \in Naming(decisions, id) : j <= i

\* The acceptance a store holds for a suggestion.
Acceptance(st, id) == (CHOOSE s \in st.suggestions : s.id = id).accepted_bool

\* The tasks a call created, and the accept decisions on the session.
NewTasks == {t \in store.tasks : \A old \in last.before.tasks : old.id # t.id}
AcceptsOfSession ==
    {i \in Places(last.decisions) :
        /\ last.decisions[i].action = "accept"
        /\ \E s \in SessionSuggestions : s.id = last.decisions[i].id}
OwnedOnlyBy(st, user_id, id) ==
    \A u \in UserIds : Owns(st, u, id) <=> u = user_id

OneAccept == ReviewedFine /\ Cardinality(AcceptsOfSession) = 1
TheAccept == last.decisions[CHOOSE i \in AcceptsOfSession : TRUE]
TheTask == CHOOSE t \in NewTasks : TRUE
ThePayload ==
    (CHOOSE s \in SessionSuggestions : s.id = TheAccept.id).payload_json

\* The value a field takes when the edited value wins whenever it is
\* supplied, then the payload's, then the default.
Supplied(edited_data, payload, key, default) ==
    IF key \in DOMAIN edited_data THEN edited_data[key]
    ELSE IF key \in DOMAIN payload THEN payload[key]
    ELSE default

\* C22: for an accepted decision each field of the created Task takes the
\* edited value whenever edited_data supplies the field, whatever the value;
\* otherwise the payload's value; otherwise the default.
C22_EditedWins ==
    OneAccept =>
        LET e == TheAccept.edited_data
            p == ThePayload
            t == TheTask
        IN  /\ t.title = Supplied(e, p, "action_title", UntitledTask)
            /\ t.status = Supplied(e, p, "status", "INBOX")
            /\ t.priority = Supplied(e, p, "priority", 3)
            /\ t.urgency = Supplied(e, p, "urgency", 3)
            /\ t.effort = Supplied(e, p, "effort", "M")
            /\ t.description = Supplied(e, p, "description", <<>>)
            /\ t.next_action = Supplied(e, p, "next_action", <<>>)

\* What the code does instead: an edited value that Python takes for false
\* (an empty text, the number 0) is passed over for the payload's value.
C22_FalsyEditPassedOver ==
    OneAccept =>
        LET e == TheAccept.edited_data
            p == ThePayload
            t == TheTask
        IN  /\ ("description" \in DOMAIN e /\ e.description = <<>>)
                  => t.description = Get(p, "description", <<>>)
            /\ ("priority" \in DOMAIN e /\ e.priority = 0)
                  => t.priority = Get(p, "priority", 3)

\* The domains of the fields of a Task.
InDomains(t) ==
    /\ t.priority \in ClampLow..ClampHigh
    /\ t.urgency \in ClampLow..ClampHigh
    /\ t.status \in VALID_STATUSES
    /\ t.effort \in VALID_EFFORTS

\* C23: every Task persisted by apply_suggestions has priority and urgency
\* in 1..5, a status of the closed status set and an effort in
\* {XS, S, M, L, XL}, whatever edited_data the caller supplies.
C23_TasksInDomains ==
    Reviewed => \A t \in NewTasks : InDomains(t)

\* What the code does instead: the merged values are persisted as they are.
C23_MergedValuesPersisted ==
    OneAccept =>
        LET e == TheAccept.edited_data
        IN  /\ ("status" \in DOMAIN e /\ e.status # "") => TheTask.status = e.status
            /\ ("effort" \in DOMAIN e /\ e.effort # "") => TheTask.effort = e.effort
            /\ ("priority" \in DOMAIN e /\ e.priority # 0)
                   => TheTask.priority = e.priority

\* The project and area suggestions of the merged payload of the accept.
MergedList(key) == merged(TheAccept.edited_data, ThePayload, key, <<>>, <<>>)

\* The nodes of a label that the caller owns under a name, case folded.
NamedLike(st, label, name) ==
    {x \in st[label] : Owns(st, last.user, x.id) /\ toLower(x.name) = toLower(name)}

\* For every name of the list there is one node of the caller of that
\* case-folded name, the one that existed before if one did, and one edge
\* of the type from the new task to it.
OneNodeAndEdgePerName(key, label, type) ==
    \A k \in DOMAIN MergedList(key) :
        LET name == MergedList(key)[k].val
        IN  /\ Cardinality(NamedLike(store, label, name)) = 1
            /\ NamedLike(last.before, label, name) # {}
                  => NamedLike(store, label, name) = NamedLike(last.before, label, name)
            /\ \A x \in NamedLike(store, label, name) :
                  EdgeCount(store, type, TheTask.id, x.id) = 1

OnlyForeignIds ==
    /\ Places(last.decisions) # {}
    /\ \A i \in Places(last.decisions) :
          \A s \in SessionSuggestions : s.id # last.decisions[i].id

\* C25: a decision whose id is not the id of a suggestion of the session is
\* skipped without error and changes nothing in the store, also when the id
\* is that of a suggestion of another session of the same owner.
C25_ForeignIdSkipped ==
    (Reviewed /\ last.fail_at = 0 /\ OnlyForeignIds) =>
        /\ last.ret = None
        /\ store = last.before

\* What the code does instead: such a decision raises nothing and creates
\* nothing, and leaves the suggestions of other owners alone, but writes the
\* flag of the suggestion when the caller owns it.
C25_OwnFlagWritten ==
    (Reviewed /\ last.fail_at = 0 /\ OnlyForeignIds) =>
        /\ last.ret = None
        /\ [store EXCEPT !.suggestions = last.before.suggestions] = last.before
        /\ \A s \in last.before.suggestions :
              IF Owns(last.before, last.user, s.id) /\ Naming(last.decisions, s.id) # {}
              THEN Acceptance(store, s.id) =
                       BoolStr(last.decisions[LastNaming(last.decisions, s.id)].action
                                   = "accept")
              ELSE Acceptance(store, s.id) = Acceptance(last.before, s.id)

\* The first k decisions of the latest call raise when applied to the store
\* the call started from.
PrefixRaises(k) ==
    apply_suggestions(last.before, last.user, last.arg[1],
                      SubSeq(last.decisions, 1, k), clock, last.fail_at).ret.kind = "raise"

\* The call fails in a decision, and the place of that decision.
FailsInDecision ==
    /\ Reviewed
    /\ ~PrefixRaises(0)
    /\ \E i \in DOMAIN last.decisions : PrefixRaises(i)
FailedPlace ==
    CHOOSE i \in DOMAIN last.decisions :
        PrefixRaises(i) /\ \A k \in 0..(i - 1) : ~PrefixRaises(k)

\* The decisions at the places before i, and the accepts of the session
\* among them.
Before(i) == SubSeq(last.decisions, 1, i - 1)
AcceptsBefore(i) == {k \in AcceptsOfSession : k < i}

\* C26: when a decision fails, apply_suggestions raises; the flags and the
\* Tasks written for the decisions before it remain, and no decision after
\* it is processed: suggestions named only after it keep their acceptance
\* and no Task is created for them.
C26_StopsWithoutRollback ==
    FailsInDecision =>
        LET i == FailedPlace
        IN  /\ last.ret.kind = "raise"
            /\ \A s \in SessionSuggestions :
                  IF Naming(last.decisions, s.id) \cap 1..i = {}
                  THEN Acceptance(store, s.id) = Acceptance(last.before, s.id)
                  ELSE i \notin Naming(last.decisions, s.id)
                          => Acceptance(store, s.id) =
                                 BoolStr(Before(i)[LastNaming(Before(i), s.id)].action
                                             = "accept")
            /\ Cardinality(NewTasks) >= Cardinality(AcceptsBefore(i))
            /\ Cardinality(NewTasks) <= Cardinality(AcceptsBefore(i)) + 1
            /\ Cardinality(NewTasks) > Cardinality(AcceptsBefore(i))
                  => i \in AcceptsOfSession

\* The second of three decisions failed: the task and the flag of the first
\* are in the store, the suggestion the third accepts is untouched.
C26_FailedInTheMiddle ==
    /\ FailsInDecision
    /\ FailedPlace = 2
    /\ Len(last.decisions) = 3
    /\ AcceptsOfSession = {1, 3}
    /\ last.decisions[3].id # last.decisions[1].id
    /\ Cardinality(NewTasks) = 1
    /\ Acceptance(store, last.decisions[1].id) = BoolStr(TRUE)
    /\ Acceptance(last.before, last.decisions[1].id) = BoolStr(FALSE)
    /\ Acceptance(store, last.decisions[3].id) = BoolStr(FALSE)
    /\ last.ret.kind = "raise"

\* The acceptance of every suggestion of a store.
Flags(st) == {<<s.id, s.accepted_bool>> : s \in st.suggestions}

\* A step that applies to the same session the list the step before it
\* applied, both calls returning.
SecondApplication ==
    /\ last.op = "apply_suggestions" /\ last.ret = None
    /\ last'.op = "apply_suggestions" /\ last'.ret = None
    /\ last'.n = last.n + 1

\* C27: applying the same list of decisions to the same session a second
\* time leaves the acceptance of every suggestion as the first application
\* left it, and creates one further Task for every accept decision on a
\* suggestion of the session.
C27_FlagsIdempotentTasksNot ==
    [][SecondApplication =>
          /\ Flags(store') = Flags(store)
          /\ Cardinality(store'.tasks) = Cardinality(store.tasks)
                + Cardinality({i \in Places(last.decisions) :
                      /\ last.decisions[i].action = "accept"
                      /\ \E s \in Range(get_suggestions_for_session(
                                           store, last.user, last.arg[1])) :
                            s.id = last.decisions[i].id})]_vars

\* A list with an accept and a reject was applied a second time: the store
\* held the flags of the list before the call and holds them after it, and
\* there is a further task.
C27_AppliedTwice ==
    /\ ReviewedFine
    /\ last.n = 2
    /\ \E s, t \in SessionSuggestions :
          /\ Accepting(last.decisions, s.id) # {} /\ Rejecting(last.decisions, s.id) = {}
          /\ Rejecting(last.decisions, t.id) # {} /\ Accepting(last.decisions, t.id) = {}
          /\ Acceptance(last.before, s.id) = BoolStr(TRUE)
          /\ Acceptance(store, s.id) = BoolStr(TRUE)
          /\ Acceptance(store, t.id) = BoolStr(FALSE)
    /\ Flags(store) = Flags(last.before)
    /\ Cardinality(NewTasks) = Cardinality(AcceptsOfSession)
    /\ Cardinality(NewTasks) >= 1

\* C28: over any sequence of apply_suggestions calls the acceptance of a
\* Suggestion changes at most once, from its created value to accepted or
\* rejected, and no Suggestion is ever deleted.  run_triage creates every
\* suggestion with the value "False", so that a suggestion holding "True"
\* has changed once, and must keep "True" in every later step.
C28_ChangesAtMostOnce ==
    [][/\ \A s \in store.suggestions :
             s.accepted_bool = BoolStr(TRUE)
                 => \E t \in store'.suggestions :
                        t.id = s.id /\ t.accepted_bool = BoolStr(TRUE)
       /\ \A s \in store.suggestions : \E t \in store'.suggestions : t.id = s.id]_vars

\* What holds instead: no step deletes a Suggestion or changes anything of
\* it but the acceptance.
C28_NeverDeleted ==
    [][\A s \in store.suggestions :
          \E t \in store'.suggestions : [t EXCEPT !.accepted_bool = s.accepted_bool] = s]_vars

\* ===================================================================
\* Properties of the similarity search under SpecReview
\* ===================================================================

\* The vectors the embedding service yields for the titles of the model.
Embeddings ==
    {embed_query(title) :
        title \in {<<"p", "a", "y">>, <<"P", "a", "y">>, <<"c", "a", "l", "l">>, <<>>}}

\* Tasks in the similarity index.
Indexed(st) == {t \in st.tasks : t.embedding # NoEmbedding}

\* A result of the search: at most k rows, tasks of the owner only, every
\* score that of its task, no score above the one before it.
ScopedAndOrdered(rows, st, user_id, embedding, k) ==
    /\ Len(rows) <= k
    /\ \A i \in DOMAIN rows :
          /\ rows[i][1] \in st.tasks
          /\ OwnedOnlyBy(st, user_id, rows[i][1].id)
          /\ rows[i][2] = Similarity(rows[i][1].embedding, embedding)
    /\ \A i, j \in DOMAIN rows : i < j => rows[i][2] >= rows[j][2]

\* C29: find_similar_tasks(owner, vector, k) returns at most k pairs of a
\* task and a score, every task owned by the owner, in non-increasing order
\* of the score, whatever tasks of whatever owners the index holds.
C29_ScopedTopK ==
    \A u \in UserIds, e \in Embeddings, k \in 1..SimilarLimit :
        ScopedAndOrdered(find_similar_tasks(store, u, e, k), store, u, e, k)

\* The index holds tasks of two owners; a search finds two tasks of the
\* owner with different scores while a task of the other owner is at least
\* as near as the nearer of them.
C29_OtherOwnersTaskNearer ==
    \E u \in UserIds, e \in Embeddings, k \in 1..SimilarLimit :
        LET rows == find_similar_tasks(store, u, e, k)
        IN  /\ Len(rows) >= 2
            /\ rows[1][2] > rows[2][2]
            /\ \E t \in Indexed(store) :
                  /\ ~Owns(store, u, t.id)
                  /\ Similarity(t.embedding, e) >= rows[1][2]

\* The ids of the duplicate candidates of a suggestion.
CandidateIds(s) ==
    {s.payload_json.duplicate_candidates[i].task_id :
        i \in DOMAIN s.payload_json.duplicate_candidates}

\* C30: every task id among the duplicate_candidates of a Suggestion that
\* run_triage persisted is the id of a Task owned by the owner of the
\* Suggestion, also when the index holds tasks of several owners.
C30_CandidatesOfOwner ==
    \A s \in store.suggestions :
        \A id \in CandidateIds(s) :
            /\ \E t \in store.tasks : t.id = id
            /\ \A u \in UserIds : Owns(store, u, s.id) <=> Owns(store, u, id)

\* run_triage persisted a suggestion with a duplicate candidate while a task
\* of another owner was in the index and nearer to the item than the
\* candidate.
C30_NearerTaskOfAnother ==
    /\ last.op = "run_triage"
    /\ \E s \in store.suggestions :
          /\ \A old \in last.before.suggestions : old.id # s.id
          /\ \E id \in CandidateIds(s) :
                \E t, other \in Indexed(last.before) :
                    /\ t.id = id
                    /\ ~Owns(last.before, last.user, other.id)
                    /\ Similarity(other.embedding, embed_query(s.payload_json.action_title))
                          > Similarity(t.embedding, embed_query(s.payload_json.action_title))

\* The index's answer to a query for every task it holds, nearest first.
IndexOrder(st, embedding) == OrderBySimilarity(Indexed(st), embedding)

\* The k nearest tasks of the index are all of other owners and the task
\* just behind them, strictly farther, is of the owner.
OwnedJustBehind(st, user_id, embedding, k) ==
    LET idx == IndexOrder(st, embedding)
    IN  /\ Len(idx) > k
        /\ \A i \in 1..k : ~Owns(st, user_id, idx[i][1].id)
        /\ Owns(st, user_id, idx[k + 1][1].id)
        /\ idx[k][2] > idx[k + 1][2]

\* C32: find_similar_tasks(owner, vector, k) asks the index for strictly more
\* than k candidates before it filters by ownership and truncates to k, so
\* when tasks of other owners occupy the first k positions of the index the
\* owner's task at position k + 1 is still found.
C32_OverFetches ==
    \A u \in UserIds, e \in Embeddings, k \in 1..SimilarLimit :
        OwnedJustBehind(store, u, e, k)
            => Len(find_similar_tasks(store, u, e, k)) >= 1

\* The suggestions of the session that the latest call turned accepted.
TurnedAccepted ==
    {s \in SessionSuggestions :
        /\ Acceptance(last.before, s.id) = BoolStr(FALSE)
        /\ Acceptance(store, s.id) = BoolStr(TRUE)}

\* C40: after an apply_suggestions call has returned or failed, each
\* suggestion of the session that is accepted has a Task materialized from
\* it: the call created at least one Task per suggestion it turned accepted.
C40_AcceptedHasTask ==
    Reviewed => Cardinality(NewTasks) >= Cardinality(TurnedAccepted)

\* What holds instead: the guarantee of a call that returned.
C40_AcceptedHasTaskWhenReturned ==
    ReviewedFine => Cardinality(NewTasks) >= Cardinality(TurnedAccepted)

\* Every PART_OF, IN_AREA and DUPLICATE_OF edge of the store joins two
\* entities with the same owners, and each of them has an owner.
SameOwnerLinks ==
    \A e \in LinkEdges(store) :
        /\ OwnersOf(e[2]) = OwnersOf(e[3])
        /\ OwnersOf(e[2]) # {}

\* C38: every PART_OF, IN_AREA and DUPLICATE_OF edge connects two entities
\* of the same owner, whatever calls are made to the relationship operations
\* or to apply_suggestions.
C38_LinksWithinOwner == SameOwnerLinks

\* What holds instead: the edges written by apply_suggestions, which links
\* the task it created to what find_or_create returned to the same user.
C38_ApplierLinksWithinOwner ==
    Reviewed => SameOwnerLinks

\* ===================================================================
\* Specification SpecLists: two users create tasks, projects and areas and
\* list them.
\* ===================================================================

\* The orders in which a query without ORDER BY can hand back a set of rows.
Orderings(S) ==
    {rows \in [1..Cardinality(S) -> S] :
        \A i, j \in 1..Cardinality(S) : rows[i] = rows[j] => i = j}

InitLists ==
    /\ store = create_user(create_user(EmptyStore, "u1").st, "u2").st
    /\ clock = 0
    /\ last = Call("create_user", "u2", <<>>, Some("u2"))
    /\ procs = NoProcs

ListTasks(u, status) ==
    /\ last' = Call("list_tasks", u, <<>>, Some(list_tasks(store, u, status)))
    /\ UNCHANGED <<store, clock, procs>>

ListProjects(u) ==
    /\ \E rows \in Orderings(list_projects(store, u)) :
          last' = Call("list_projects", u, <<>>, Some(rows))
    /\ UNCHANGED <<store, clock, procs>>

ListAreas(u) ==
    /\ \E rows \in Orderings(list_areas(store, u)) :
          last' = Call("list_areas", u, <<>>, Some(rows))
    /\ UNCHANGED <<store, clock, procs>>

NextLists ==
    \/ \E u \in UserIds, s \in Statuses : CreateTask(u, s)
    \/ \E u \in UserIds, n \in Names : FindOrCreateProject(u, n)
    \/ \E u \in UserIds, n \in Names : FindOrCreateArea(u, n)
    \/ \E u \in UserIds, s \in Statuses \cup {""} : ListTasks(u, s)
    \/ \E u \in UserIds : ListProjects(u)
    \/ \E u \in UserIds : ListAreas(u)

SpecLists == InitLists /\ [][NextLists]_vars

\* Rows in which no row was created after the row before it.  A task carries
\* created_at; a project or an area carries no time of creation, its id is
\* the value of the clock when it was created.
NewestFirst(rows, created) ==
    \A i, j \in DOMAIN rows : i < j => created[rows[i].id] >= created[rows[j].id]
Created == [id \in 0..(MaxClock + 1) |-> id]

\* C31: list_tasks, list_projects and list_areas each return the owner's
\* entities newest first by creation time.
C31_NewestFirst ==
    (last.op \in {"list_tasks", "list_projects", "list_areas"})
        => NewestFirst(last.ret.val, Created)

\* What holds instead: list_tasks alone returns its rows newest first.
C31_TasksNewestFirst ==
    (last.op = "list_tasks") =>
        /\ NewestFirst(last.ret.val, Created)
        /\ \A i, j \in DOMAIN last.ret.val :
              i < j => last.ret.val[i].created_at >= last.ret.val[j].created_at

\* ===================================================================
\* Specification SpecRun: run_triage step by step.  procs holds the frame of
\* the invocation: its position, its arguments and local variables, the
\* calls it has made to the store, the LLM client and the embedding
\* service, and its result.  Any of those calls can raise.
\* ===================================================================

\* Items the LLM answers with in one run, runs per exploration, and the
\* draws of uuid4()/now() they can use.
MaxRunItems == 2
MaxRuns == 2
MaxRunClock == 9

\* The store the runs start from: u1 owns the NEXT task 1 "pays", u2 owns
\* task 2 "pay" and the NEXT task 3 "Pay"; all three are in the index.
IndexedTask(id, title, status) ==
    [TaskNode(id, title, status, id) EXCEPT !.embedding = embed_query(title)]

RunStore ==
    LET s0 == create_user(create_user(EmptyStore, "u1").st, "u2").st
        s1 == create_task(s0, "u1", IndexedTask(1, <<"p", "a", "y", "s">>, "NEXT")).st
        s2 == create_task(s1, "u2", IndexedTask(2, <<"p", "a", "y">>, "INBOX")).st
    IN  create_task(s2, "u2", IndexedTask(3, <<"P", "a", "y">>, "NEXT")).st

\* What the client answers to the requests of one run.
RunResponses ==
    {[k \in 1..Attempts |-> ClientError], <<Unparsable, Unparsable>>}
        \cup {[k \in 1..Attempts |-> Parsed(Data(items))] :
                  items \in UNION {[1..n -> LLMItems] : n \in 0..MaxRunItems}}

NoRun == [pc |-> "IDLE", runs |-> 0]

\* session_id = str(uuid.uuid4()), before the try block.
Frame(user_id, brain_dump, responses, session_id, before, runs) ==
    [pc |-> "STARTED", runs |-> runs, user_id |-> user_id, brain_dump |-> brain_dump,
     llm |-> responses, session_id |-> session_id, before |-> before,
     context_up |-> TRUE, context |-> EmptyContext, requests |-> <<>>,
     items |-> <<>>, i |-> 1, embedding |-> NoEmbedding, similar_tasks |-> <<>>,
     suggestions |-> <<>>, calls |-> <<>>, failed_in |-> <<>>,
     result |-> None]

\* A call the run made: the function and the item it was made for (0 for a
\* call made before the loop).
Made(run, function, item) ==
    [run EXCEPT !.calls = Append(@, [function |-> function, item |-> item])]

\* A handler that puts the failed item aside and goes on with the next one.
item_skipped(run, e) ==
    [run EXCEPT !.pc = "ITEM_PERSISTED", !.i = @ + 1,
                !.failed_in = Append(@, run.calls[Len(run.calls)])]

\* except Exception as e: return {"session_id": session_id, "suggestions": [],
\* "error": str(e)}
failed(run, e) ==
    [run EXCEPT !.pc = "FAILED",
                !.failed_in = Append(@, run.calls[Len(run.calls)]),
                !.result = Some([session_id |-> run.session_id,
                                 suggestions |-> <<>>, error |-> e])]

\* The same handler reached from inside the loop over the items.
item_failed(run, e) == failed(run, e)

InitRun ==
    /\ store = RunStore
    /\ clock = 3
    /\ last = Call("init", "", <<>>, None)
    /\ procs = NoRun

\* run_triage(user_id, brain_dump) is called.
StartRun(user_id, responses) ==
    /\ procs.pc \in {"IDLE", "DONE", "FAILED"}
    /\ procs.runs < MaxRuns
    /\ clock + 1 + MaxRunItems <= MaxRunClock
    /\ clock' = clock + 1
    /\ procs' = Frame(user_id, <<"d">>, responses, clock + 1, store, procs.runs + 1)
    /\ UNCHANGED <<store, last>>

\* 1. graphrag_service.create_triage_session(user_id, session_node)
CreateSession(ok) ==
    /\ procs.pc = "STARTED"
    /\ LET run == Made(procs, "create_triage_session", 0)
           session == TriageSessionNode(run.session_id, run.session_id, run.brain_dump)
       IN  IF ok
           THEN /\ store' = create_triage_session(store, run.user_id, session).st
                /\ procs' = [run EXCEPT !.pc = "SESSION_CREATED"]
           ELSE /\ procs' = failed(run, "store")
                /\ UNCHANGED store
    /\ UNCHANGED <<clock, last>>

\* 2. context = _fetch_user_context(user_id)
GatherContext(up) ==
    /\ procs.pc = "SESSION_CREATED"
    /\ procs' = [Made(procs, "_fetch_user_context", 0) EXCEPT
                    !.pc = "CONTEXT_GATHERED",
                    !.context_up = up,
                    !.context = fetch_user_context(store, procs.user_id, up)]
    /\ UNCHANGED <<store, clock, last>>

\* 3. triage_result = llm_service.triage_brain_dump(brain_dump, context)
GenerateItems ==
    /\ procs.pc = "CONTEXT_GATHERED"
    /\ LET run == Made(procs, "triage_brain_dump", 0)
           r == triage_brain_dump(run.brain_dump, run.context, run.llm)
       IN  procs' = IF r.ret.kind = "some"
                    THEN [run EXCEPT !.pc = "ITEMS_GENERATED",
                                     !.requests = r.requests,
                                     !.items = r.ret.val.items]
                    ELSE failed([run EXCEPT !.requests = r.requests], r.ret.err)
    /\ UNCHANGED <<store, clock, last>>

\* A loop that takes up an item again while its suggestion is not yet written.
AtItemUnpersisted ==
    /\ procs.pc \in {"ITEMS_GENERATED", "ITEM_PERSISTED", "ITEM_DEDUPED"}
    /\ procs.i <= Len(procs.items)

\* The loop is at an item it has not started yet.
AtItem == procs.pc \in {"ITEMS_GENERATED", "ITEM_PERSISTED"} /\ procs.i <= Len(procs.items)

\* 4a. embedding = embeddings_service.embed_query(item["action_title"])
EmbedItem(ok) ==
    /\ AtItem
    /\ LET run == Made(procs, "embed_query", procs.i)
       IN  procs' = IF ok
                    THEN [run EXCEPT !.pc = "ITEM_EMBEDDED",
                                     !.embedding = embed_query(run.items[run.i].action_title)]
                    ELSE item_failed(run, "upstream")
    /\ UNCHANGED <<store, clock, last>>

\* 4b. similar_tasks = graphrag_service.find_similar_tasks(user_id, embedding, limit=3)
SearchSimilar(ok) ==
    /\ procs.pc = "ITEM_EMBEDDED"
    /\ LET run == Made(procs, "find_similar_tasks", procs.i)
       IN  procs' = IF ok
                    THEN [run EXCEPT !.pc = "ITEM_DEDUPED",
                                     !.similar_tasks =
                                         find_similar_tasks(store, run.user_id,
                                                            run.embedding, SimilarLimit)]
                    ELSE item_failed(run, "store")
    /\ UNCHANGED <<store, clock, last>>

\* 4c-4e. The payload is built and graphrag_service.create_suggestion is
\* called; the suggestion joins the list of the result.
PersistSuggestion(ok) ==
    /\ procs.pc = "ITEM_DEDUPED"
    /\ clock' = clock + 1
    /\ LET run == Made(procs, "create_suggestion", procs.i)
           payload == suggestion_payload(run.items[run.i], run.similar_tasks)
           suggestion == SuggestionNode(clock + 1, clock + 1, payload, BoolStr(FALSE))
       IN  IF ok
           THEN /\ store' = create_suggestion(store, run.user_id, run.session_id,
                                              suggestion).st
                /\ procs' = [run EXCEPT !.pc = "ITEM_PERSISTED", !.i = @ + 1,
                                        !.suggestions = Append(@, suggestion)]
           ELSE /\ procs' = item_failed(run, "store")
                /\ UNCHANGED store
    /\ UNCHANGED last

\* return {"session_id": session_id, "suggestions": suggestions, "error": None}
ReturnResult ==
    /\ procs.pc \in {"ITEMS_GENERATED", "ITEM_PERSISTED"}
    /\ procs.i > Len(procs.items)
    /\ procs' = [procs EXCEPT !.pc = "DONE",
                              !.result = Some([session_id |-> procs.session_id,
                                               suggestions |-> procs.suggestions,
                                               error |-> PyNone])]
    /\ last' = Call("run_triage", procs.user_id, <<procs.session_id>>, procs'.result)
    /\ UNCHANGED <<store, clock>>

\* The steps of an invocation that has been started.
RunStep ==
    \/ \E ok \in BOOLEAN : CreateSession(ok)
    \/ \E up \in BOOLEAN : GatherContext(up)
    \/ GenerateItems
    \/ \E ok \in BOOLEAN : EmbedItem(ok)
    \/ \E ok \in BOOLEAN : SearchSimilar(ok)
    \/ \E ok \in BOOLEAN : PersistSuggestion(ok)
    \/ ReturnResult

NextRun ==
    \/ \E u \in UserIds, responses \in RunResponses : StartRun(u, responses)
    \/ RunStep

SpecRun == InitRun /\ [][NextRun]_vars

\* The interpreter runs the statements of a call one after the other: a
\* step that can be taken is taken.
SpecRunFair == SpecRun /\ WF_vars(RunStep)

\* ===================================================================
\* Properties of run_triage under SpecRun
\* ===================================================================

\* The loop has just persisted the suggestion of an item; that suggestion.
JustPersisted ==
    /\ procs.pc = "ITEM_PERSISTED"
    /\ procs.calls[Len(procs.calls)].function = "create_suggestion"
    /\ procs.suggestions # <<>>
LatestSuggestion == procs.suggestions[Len(procs.suggestions)]

\* C33: a task the similarity search returned is listed in
\* duplicate_candidates exactly when its score is at least the threshold of
\* 85 hundredths; a task scoring exactly 85 is listed.
C33_ListedFromThreshold ==
    JustPersisted =>
        \A row \in Range(procs.similar_tasks) :
            row[1].id \in CandidateIds(LatestSuggestion) <=> row[2] >= DuplicateThreshold

\* What holds instead: a task is listed exactly when its score is above the
\* threshold.
C33_ListedAboveThreshold ==
    JustPersisted =>
        \A row \in Range(procs.similar_tasks) :
            row[1].id \in CandidateIds(LatestSuggestion) <=> row[2] > DuplicateThreshold

\* The functions the run has called so far.
Called(function) == \E k \in DOMAIN procs.calls : procs.calls[k].function = function

\* A context query of the run failed.
ContextFailed == procs.pc \notin {"IDLE", "STARTED", "SESSION_CREATED"} /\ ~procs.context_up

\* C34: when a context query fails, _fetch_user_context raises nothing and
\* returns the three lists empty, and run_triage goes on to the LLM call
\* with that empty context: the run does not fail there, and every request
\* it sends carries the empty context.
C34_ContextFailureSwallowed ==
    ContextFailed =>
        /\ procs.context = EmptyContext
        /\ \A k \in DOMAIN procs.failed_in :
              procs.failed_in[k].function # "_fetch_user_context"
        /\ procs.pc = "CONTEXT_GATHERED" \/ Called("triage_brain_dump")
        /\ Called("triage_brain_dump") =>
              /\ procs.requests # <<>>
              /\ \A k \in DOMAIN procs.requests :
                    procs.requests[k] = user_prompt(procs.brain_dump, EmptyContext)

\* The context queries of a user who has a NEXT task failed; the LLM was
\* asked with the empty context and the run came to its end with a
\* suggestion.
C34_RunWentOnWithoutContext ==
    /\ procs.pc = "DONE"
    /\ ContextFailed
    /\ fetch_user_context(procs.before, procs.user_id, TRUE) # EmptyContext
    /\ procs.requests = <<user_prompt(procs.brain_dump, EmptyContext)>>
    /\ procs.suggestions # <<>>
    /\ procs.result.val.error = PyNone

\* A call made for an item raised in the run, and the first such item.
ItemFailed ==
    /\ procs.pc # "IDLE"
    /\ \E k \in DOMAIN procs.failed_in : procs.failed_in[k].item >= 1
FailedItem == procs.failed_in[1].item

\* The suggestions the store holds for the session of the run, oldest first.
Persisted == get_suggestions_for_session(store, procs.user_id, procs.session_id)

\* C36: when the embedding, the search or the suggestion write of item i
\* fails, run_triage makes no call for a later item and none after the
\* failed one, the suggestions persisted for the items before i remain in
\* the store, one per item and in their order, and the run ends with an
\* error that is not null.
C36_StopsAtFailedItem ==
    ItemFailed =>
        /\ procs.pc = "FAILED"
        /\ procs.failed_in = <<procs.calls[Len(procs.calls)]>>
        /\ procs.failed_in[1].function
              \in {"embed_query", "find_similar_tasks", "create_suggestion"}
        /\ \A k \in DOMAIN procs.calls : procs.calls[k].item <= FailedItem
        /\ Len(Persisted) = FailedItem - 1
        /\ \A k \in DOMAIN Persisted :
              Persisted[k].payload_json.action_title = procs.items[k].action_title
        /\ procs.result.kind = "some"
        /\ procs.result.val.error # PyNone

\* The suggestion write of the second of two items failed: the suggestion of
\* the first item is in the store, the run ended with an error.
C36_SecondItemFailed ==
    /\ ItemFailed
    /\ FailedItem = 2
    /\ Len(procs.items) = 2
    /\ procs.failed_in[1].function = "create_suggestion"
    /\ Len(Persisted) = 1
    /\ procs.pc = "FAILED"
    /\ procs.result.val.error = "store"

\* The run has returned.
Returned == procs.pc \in {"DONE", "FAILED"}

\* C37: whenever run_triage returns, also after a failure part-way, the
\* suggestions of its result are exactly the Suggestions the run persisted
\* for its session, those PRODUCED by session_id in the store.
C37_ResultListsPersisted ==
    Returned => procs.result.val.suggestions = Persisted

\* What holds instead: a run that ends without error lists what it
\* persisted; a run that failed lists nothing, whatever it persisted.
C37_ListedUnlessFailed ==
    /\ procs.pc = "DONE" =>
          /\ procs.result.val.suggestions = Persisted
          /\ procs.result.val.error = PyNone
    /\ procs.pc = "FAILED" =>
          /\ procs.result.val.suggestions = <<>>
          /\ procs.result.val.error # PyNone

\* The k-th call of an invocation that nothing stops: the session write,
\* the context reads, the LLM call, then for each item in turn the
\* embedding, the search and the suggestion write.
CallInTurn(k) ==
    CASE k = 1 -> [function |-> "create_triage_session", item |-> 0]
      [] k = 2 -> [function |-> "_fetch_user_context", item |-> 0]
      [] k = 3 -> [function |-> "triage_brain_dump", item |-> 0]
      [] k > 3 /\ k % 3 = 1 -> [function |-> "embed_query", item |-> (k - 1) \div 3]
      [] k > 3 /\ k % 3 = 2 -> [function |-> "find_similar_tasks", item |-> (k - 2) \div 3]
      [] OTHER -> [function |-> "create_suggestion", item |-> (k - 3) \div 3]

\* The calls made so far are the first calls of that order, and a call for
\* an item finds the suggestions of all items before it in the store.
CallsInOrder ==
    procs.pc # "IDLE" =>
        /\ \A k \in DOMAIN procs.calls : procs.calls[k] = CallInTurn(k)
        /\ \A k \in DOMAIN procs.calls :
              procs.calls[k].item >= 2 => Len(Persisted) >= procs.calls[k].item - 1

\* The positions an invocation can move to from a position.
After(pc) ==
    CASE pc \in {"IDLE", "DONE", "FAILED"} -> {"STARTED"}
      [] pc = "STARTED" -> {"SESSION_CREATED", "FAILED"}
      [] pc = "SESSION_CREATED" -> {"CONTEXT_GATHERED"}
      [] pc = "CONTEXT_GATHERED" -> {"ITEMS_GENERATED", "FAILED"}
      [] pc \in {"ITEMS_GENERATED", "ITEM_PERSISTED"} -> {"ITEM_EMBEDDED", "DONE", "FAILED"}
      [] pc = "ITEM_EMBEDDED" -> {"ITEM_DEDUPED", "FAILED"}
      [] pc = "ITEM_DEDUPED" -> {"ITEM_PERSISTED", "FAILED"}

\* A step of the invocation moves it to one of those positions.
MovesOn == procs' # procs => procs'.pc \in After(procs.pc)

Running == procs.pc \notin {"IDLE", "DONE", "FAILED"}

\* C35: every invocation of run_triage goes from SESSION_CREATED over
\* CONTEXT_GATHERED and ITEMS_GENERATED through ITEM_DEDUPED and
\* ITEM_PERSISTED for each item to DONE or FAILED: the session write comes
\* before the context reads and these before the LLM call, for each item
\* the embedding before the search before the suggestion write, no item is
\* started before the suggestion of the item before it is persisted, and
\* every invocation comes to its end with a result.
C35_InOrderToTheEnd ==
    /\ [](CallsInOrder)
    /\ [][MovesOn]_vars
    /\ (Running ~> (Returned /\ procs.result.kind = "some"))

\* A run over two items came to DONE after all nine calls.
C35_AllStepsTaken ==
    /\ procs.pc = "DONE"
    /\ Len(procs.items) = 2
    /\ Len(procs.calls) = 9
    /\ procs.calls[9] = [function |-> "create_suggestion", item |-> 2]
    /\ Len(Persisted) = 2

====
